---- MODULE Spec2Model ----
(***************************************************************************)
(* Model of the Coordinator ("client") of the blind Mafia game: the BFV     *)
(* vector operations, the per-phase action collector, the night / vote      *)
(* phase engine, the threshold decryption service and the win check.        *)
(*                                                                          *)
(* A ciphertext is modelled by the plaintext vector it encrypts (residues   *)
(* modulo the plaintext modulus, one slot per player) together with its     *)
(* lineage: the set of <<party, slot>> triplet entries it was computed      *)
(* from.  A serialized ciphertext is a record wrapped around it.            *)
(***************************************************************************)
EXTENDS Integers, Sequences, FiniteSets, TLC

\* ------------------------------------------------------------------------
\* Bounds and program constants
\* ------------------------------------------------------------------------

\* number of players of the modelled game (the human is player 0)
NumPlayers == 4

\* nights after which the modelled session is cut off
MaxDay == 2

\* the highest player index the modelled peers aim at
MaxTarget == 1

\* parameters.SetPlaintextModulus(65537)
PlaintextModulus == 65537

NUM_ROLE_TYPES == 4

\* parameters.SetBatchSize
BatchSize == 8

\* the chat messages of one discussion
MaxChat == 3

\* GAME_CONFIG["min_players"] and ["max_players"]
MinPlayers == 4

MaxPlayers == 10

human_player_index == 0

Slots == 0..(NumPlayers - 1)

Agents == 1..(NumPlayers - 1)

\* "no target": the -1 the UI and the CLI use for skip / abstain
NoTarget == -1

\* Python's None where an integer is expected (a target, a player index)
None == -2

\* ------------------------------------------------------------------------
\* Crypto primitive adapter (OpenFHE BFV, packed encoding)
\* ------------------------------------------------------------------------

\* cc.MakePackedPlaintext: integers are reduced into the plaintext ring
MakePackedPlaintext(vec) == [k \in Slots |-> vec[k] % PlaintextModulus]

\* cc.Encrypt under the joint key; a fresh ciphertext has no lineage yet
Encrypt(plain) == [pt |-> plain, from |-> {}]

EvalAdd(c1, c2) ==
    [pt |-> [k \in Slots |-> (c1.pt[k] + c2.pt[k]) % PlaintextModulus],
     from |-> c1.from \cup c2.from]

EvalAddPlain(c, plain) ==
    [pt |-> [k \in Slots |-> (c.pt[k] + plain[k]) % PlaintextModulus],
     from |-> c.from]

EvalNegate(c) ==
    [pt |-> [k \in Slots |-> (PlaintextModulus - c.pt[k]) % PlaintextModulus],
     from |-> c.from]

EvalMult(c1, c2) ==
    [pt |-> [k \in Slots |-> (c1.pt[k] * c2.pt[k]) % PlaintextModulus],
     from |-> c1.from \cup c2.from]

\* a residue decoded as the packed encoding does: centred in (-t/2, t/2]
CenteredDecode(v) == IF 2 * v > PlaintextModulus THEN v - PlaintextModulus ELSE v

\* Plaintext.GetPackedValue()[:num_players]
GetPackedValue(plain) == [k \in Slots |-> CenteredDecode(plain[k])]

serialize_ciphertext(ct) == [b64 |-> ct]

deserialize_ciphertext(s) == s.b64

\* create_openfhe_context: the parameters of the BFV context
create_openfhe_context(num_parties) ==
    [plaintext_modulus |-> PlaintextModulus, batch_size |-> BatchSize,
     multiplicative_depth |-> 2, threshold_num_of_parties |-> num_parties]

\* ------------------------------------------------------------------------
\* Vector operations
\* ------------------------------------------------------------------------

create_zero_vector == Encrypt(MakePackedPlaintext([k \in Slots |-> 0]))

create_one_hot_vector(target_index) ==
    LET vector == [k \in Slots |->
                     IF target_index # None /\ 0 <= target_index
                        /\ target_index < NumPlayers /\ k = target_index
                     THEN 1 ELSE 0]
    IN Encrypt(MakePackedPlaintext(vector))

RECURSIVE AggregateFrom(_, _, _)
AggregateFrom(vectors, result, i) ==
    IF i > NumPlayers - 1 THEN result
    ELSE AggregateFrom(vectors, EvalAdd(result, vectors[i]), i + 1)

\* a loop that starts at vectors[0] again and so counts it twice
AggregateCountsFirstTwice(vectors) == AggregateFrom(vectors, vectors[0], 0)

\* result = vectors[0]; for vec in vectors[1:]: result = EvalAdd(result, vec)
aggregate_encrypted_vectors(vectors) == AggregateFrom(vectors, vectors[0], 1)

multiply_encrypted_vectors(vec1, vec2) == EvalMult(vec1, vec2)

\* ones + vector: the negation left out
SubtractFromOnesNoNegate(vector) ==
    EvalAddPlain(vector, MakePackedPlaintext([k \in Slots |-> 1]))

subtract_from_ones(vector) ==
    LET ones_plaintext == MakePackedPlaintext([k \in Slots |-> 1])
        neg_vector == EvalNegate(vector)
    IN EvalAddPlain(neg_vector, ones_plaintext)

compute_killed_vector(attack_vector, heal_vector) ==
    LET not_healed == subtract_from_ones(heal_vector)
    IN multiply_encrypted_vectors(attack_vector, not_healed)

\* ------------------------------------------------------------------------
\* Vector factory: the human's triplet
\* ------------------------------------------------------------------------

create_zero_vector_str == serialize_ciphertext(create_zero_vector)

create_one_hot_vector_str(target_index) ==
    serialize_ciphertext(create_one_hot_vector(target_index))

get_action_type(role, phase) ==
    IF phase = "night"
    THEN (IF role = "mafia" THEN "attack"
          ELSE IF role = "doctor" THEN "heal"
          ELSE IF role = "police" THEN "investigate"
          ELSE "none")
    ELSE IF phase = "vote" THEN "attack"
    ELSE "none"

\* a variant that puts the real vector into all three slots
RealVectorInEverySlot(target, role, phase) ==
    LET real_str == IF target = -1 THEN create_zero_vector_str
                    ELSE create_one_hot_vector_str(target)
    IN <<real_str, real_str, real_str>>

\* the tuple (vote_vector, attack_vector, heal_vector)
create_human_action_vectors(target, role, phase) ==
    LET action_type == get_action_type(role, phase)
        real_str == IF target = -1 \/ action_type = "none"
                    THEN create_zero_vector_str
                    ELSE create_one_hot_vector_str(target)
        dummy_str == create_zero_vector_str
    IN IF phase = "vote" THEN <<real_str, dummy_str, dummy_str>>
       ELSE IF phase = "night"
       THEN (IF action_type = "attack" THEN <<dummy_str, real_str, dummy_str>>
             ELSE IF action_type = "heal" THEN <<dummy_str, dummy_str, real_str>>
             ELSE <<dummy_str, dummy_str, dummy_str>>)
       ELSE <<dummy_str, dummy_str, dummy_str>>

\* GameEngine.get_human_action.  In TUI mode the screen has stored the
\* target (human_action_ready); in CLI mode `entered` is the line the prompt
\* loop finally accepts (-1 or a valid target).
CanAct(phase, role) ==
    IF phase = "night" THEN role \in {"mafia", "doctor", "police"}
    ELSE phase = "vote"

valid_targets(survivors) == {i \in survivors : i # human_player_index}

CliAccepts(survivors, entered) ==
    entered = -1 \/ entered \in valid_targets(survivors)

get_human_action(phase, survivors, role, ready, pending, entered) ==
    IF ready
    THEN create_human_action_vectors(IF pending # None THEN pending ELSE -1,
                                     role, phase)
    ELSE IF ~CanAct(phase, role)
    THEN create_human_action_vectors(-1, role, phase)
    ELSE create_human_action_vectors(entered, role, phase)

\* FHECoordinator.create_human_action_vectors_async: the vectors of
\* VectorFactory.create_human_action_vectors; no ciphertext is sent out for
\* decryption
create_human_action_vectors_async(target, role, phase) ==
    [vectors |-> create_human_action_vectors(target, role, phase),
     investigated |-> {}]

\* get_human_action once the target is fixed: the police at night with a
\* target goes through the async variant
get_human_action_callback(phase, role, target) ==
    IF role = "police" /\ phase = "night" /\ target >= 0
    THEN create_human_action_vectors_async(target, role, phase)
    ELSE [vectors |-> create_human_action_vectors(target, role, phase),
          investigated |-> {}]

\* ------------------------------------------------------------------------
\* Action collector
\* ------------------------------------------------------------------------

NoneStr == [none |-> TRUE]

TripletKeys == {"vote_vector", "attack_vector", "heal_vector"}

\* the JSON body of a peer's answer to request_action
TripletData(triplet) ==
    [vote_vector |-> triplet[1], attack_vector |-> triplet[2],
     heal_vector |-> triplet[3]]

\* the JSON body of an HTTP error answer
ErrorBody == [detail |-> "error"]

ExceptionResult == [exc |-> TRUE]

TupleResult(data) ==
    [exc |-> FALSE, vote |-> data.vote_vector, attack |-> data.attack_vector,
     heal |-> data.heal_vector]

\* AgentNetworkClient.request_agent_action: a transport error, an HTTP error
\* status or a body without the three vectors raises
request_agent_action(response) ==
    IF response.status = "ok" /\ TripletKeys \subseteq DOMAIN response.data
    THEN TupleResult(response.data)
    ELSE ExceptionResult

IsCached(cached_results, i) ==
    DOMAIN cached_results # {} /\ i \in DOMAIN cached_results

\* the KeyError of data["vote_vector"] on a cached body without the vectors
CacheKeyError(cached_results) ==
    \E i \in Agents :
        IsCached(cached_results, i) /\ ~(TripletKeys \subseteq DOMAIN cached_results[i])

RECURSIVE CachedResults(_, _)
CachedResults(cached_results, i) ==
    IF i > NumPlayers - 1 THEN <<>>
    ELSE IF IsCached(cached_results, i)
    THEN <<[player |-> i, result |-> TupleResult(cached_results[i])]>>
         \o CachedResults(cached_results, i + 1)
    ELSE CachedResults(cached_results, i + 1)

RECURSIVE TaskResults(_, _, _)
TaskResults(cached_results, responses, i) ==
    IF i > NumPlayers - 1 THEN <<>>
    ELSE IF ~IsCached(cached_results, i)
    THEN <<[player |-> i, result |-> request_agent_action(responses[i])]>>
         \o TaskResults(cached_results, responses, i + 1)
    ELSE TaskResults(cached_results, responses, i + 1)

\* AgentNetworkClient.collect_agent_actions: the list of (player, result)
collect_agent_actions(cached_results, responses) ==
    IF CacheKeyError(cached_results)
    THEN [raised |-> TRUE, results |-> <<>>]
    ELSE [raised |-> FALSE,
          results |-> CachedResults(cached_results, 1)
                      \o TaskResults(cached_results, responses, 1)]

RECURSIVE StoreResults(_, _, _)
StoreResults(lists, agent_results, j) ==
    IF j > Len(agent_results) THEN lists
    ELSE LET player == agent_results[j].player
             result == agent_results[j].result
             zero_str == create_zero_vector_str
             stored ==
                 IF ~result.exc
                 THEN [vote |-> [lists.vote EXCEPT ![player] = result.vote],
                       attack |-> [lists.attack EXCEPT ![player] = result.attack],
                       heal |-> [lists.heal EXCEPT ![player] = result.heal]]
                 ELSE [vote |-> [lists.vote EXCEPT ![player] = zero_str],
                       attack |-> [lists.attack EXCEPT ![player] = zero_str],
                       heal |-> [lists.heal EXCEPT ![player] = zero_str]]
         IN StoreResults(stored, agent_results, j + 1)

FillMissing(vectors) ==
    [i \in Slots |-> IF vectors[i] = NoneStr THEN create_zero_vector_str
                     ELSE vectors[i]]

\* ActionCollector.collect_all_actions.  human_alive is players[0].alive,
\* human_triplet what get_human_action_callback returns.
collect_all_actions(human_alive, phase, human_triplet, cached_results, responses) ==
    LET empty == [i \in Slots |-> NoneStr]
        zero_str == create_zero_vector_str
        human == IF human_alive /\ phase \in {"night", "vote"}
                 THEN human_triplet
                 ELSE <<zero_str, zero_str, zero_str>>
        with_human ==
            [vote |-> [empty EXCEPT ![human_player_index] = human[1]],
             attack |-> [empty EXCEPT ![human_player_index] = human[2]],
             heal |-> [empty EXCEPT ![human_player_index] = human[3]]]
        agent_results == collect_agent_actions(cached_results, responses)
        stored == StoreResults(with_human, agent_results.results, 1)
    IN IF agent_results.raised
       THEN [raised |-> TRUE, vote |-> empty, attack |-> empty, heal |-> empty]
       ELSE [raised |-> FALSE,
             vote |-> FillMissing(stored.vote),
             attack |-> FillMissing(stored.attack),
             heal |-> FillMissing(stored.heal)]

\* ------------------------------------------------------------------------
\* Threshold decryption service
\* ------------------------------------------------------------------------

\* a decryption share: who computed it and with which primitive
LeadShare(party) == [party |-> party, lead |-> TRUE]

MainShare(party) == [party |-> party, lead |-> FALSE]

partial_decrypt_lead(party) == LeadShare(party)

\* a peer's answer to POST /partial_decrypt {ciphertext, is_lead}
PeerPartialDecrypt(party, is_lead) ==
    IF is_lead THEN LeadShare(party) ELSE MainShare(party)

\* the same request with is_lead: True
RequestLeadFromPeer(player) == PeerPartialDecrypt(player, TRUE)

\* AgentNetworkClient.request_partial_decryption posts is_lead: False
request_partial_decryption(player) == PeerPartialDecrypt(player, FALSE)

RECURSIVE GatherPartials(_)
GatherPartials(i) ==
    IF i > NumPlayers - 1 THEN <<>>
    ELSE <<request_partial_decryption(i)>> \o GatherPartials(i + 1)

\* AgentNetworkClient.collect_partial_decryptions: one request per non-human
\* player, gathered without return_exceptions
collect_partial_decryptions == GatherPartials(1)

\* the shares a fusion needs: one per party, exactly one of them a lead share
CompleteShares(shares) ==
    /\ Len(shares) = NumPlayers
    /\ {shares[j].party : j \in 1..Len(shares)} = Slots
    /\ Cardinality({j \in 1..Len(shares) : shares[j].lead}) = 1

\* what fusion yields on an incomplete share list: not the plaintext
Garbage == [k \in Slots |-> PlaintextModulus - 1]

\* cc.MultipartyDecryptFusion
fusion_decrypt(ct, shares) == IF CompleteShares(shares) THEN ct.pt ELSE Garbage

\* ThresholdDecryptionService.decrypt_vector.  failed: the peers whose
\* partial_decrypt request raises.
decrypt_vector(encrypted_vector, failed) ==
    LET ct_b64 == serialize_ciphertext(encrypted_vector)
        human_partial == partial_decrypt_lead(human_player_index)
        partial_results == <<human_partial>> \o collect_partial_decryptions
    IN IF failed # {}
       THEN [raised |-> TRUE, sent |-> ct_b64, shares |-> <<>>, plain |-> <<>>]
       ELSE [raised |-> FALSE, sent |-> ct_b64, shares |-> partial_results,
             plain |-> GetPackedValue(fusion_decrypt(encrypted_vector, partial_results))]

\* what a player may answer to POST /investigate_parallel: a partial, an
\* error or timeout, or a payload that does not deserialize
InvestigationAnswers == {"ok", "error", "undecodable"}

\* the Coordinator's own POST /investigate_parallel handler: its partial is
\* computed with partial_decrypt_lead
investigate_parallel == partial_decrypt_lead(human_player_index)

\* AgentNetworkClient.request_partial_investigation: the partial of the
\* player at that address (players[0] is the Coordinator's own server)
request_partial_investigation(player) ==
    IF player = human_player_index THEN investigate_parallel
    ELSE PeerPartialDecrypt(player, FALSE)

\* the loop over partial_results_b64: an exception is skipped with a warning,
\* a payload that fails to deserialize too
RECURSIVE AppendPartials(_, _, _)
AppendPartials(i, requester_index, answers) ==
    IF i > NumPlayers - 1 THEN <<>>
    ELSE (IF i # requester_index /\ answers[i] = "ok"
          THEN <<request_partial_investigation(i)>> ELSE <<>>)
         \o AppendPartials(i + 1, requester_index, answers)

\* ThresholdDecryptionService.parallel_decrypt
parallel_decrypt(ciphertext_b64, requester_index, answers) ==
    LET ct == deserialize_ciphertext(ciphertext_b64)
        \* computed with self.keypair.secretKey, the Coordinator's key
        requester_partial == partial_decrypt_lead(human_player_index)
        all_partials == <<requester_partial>>
                            \o AppendPartials(0, requester_index, answers)
        final_result == fusion_decrypt(ct, all_partials)
    IN [raised |-> FALSE, partials |-> all_partials,
        plain |-> GetPackedValue(final_result)]

\* ------------------------------------------------------------------------
\* Phase engine: the tallies
\* ------------------------------------------------------------------------

\* the ciphertext at position i of one of the phase's three lists
Entry(list, i, vectors) ==
    [deserialize_ciphertext(vectors[i]) EXCEPT !.from = {<<list, i>>}]

attacks_enc(attack_vectors) == [i \in Slots |-> Entry("attack", i, attack_vectors)]

heals_enc(heal_vectors) == [i \in Slots |-> Entry("heal", i, heal_vectors)]

vote_cts(vote_vectors) == [i \in Slots |-> Entry("vote", i, vote_vectors)]

\* execute_night_phase, lines 55-86
killed_vector_enc(attack_vectors, heal_vectors) ==
    LET total_attacks == aggregate_encrypted_vectors(attacks_enc(attack_vectors))
        total_heals == aggregate_encrypted_vectors(heals_enc(heal_vectors))
    IN compute_killed_vector(total_attacks, total_heals)

\* the same with the commented-out debug decryption of every single vector
NightDecryptDebug(attack_vectors, heal_vectors) ==
    {killed_vector_enc(attack_vectors, heal_vectors)}
        \cup {attacks_enc(attack_vectors)[i] : i \in Slots}
        \cup {heals_enc(heal_vectors)[i] : i \in Slots}

\* the ciphertexts execute_night_phase hands to threshold_decrypt_vector
NightDecrypted(attack_vectors, heal_vectors) ==
    {killed_vector_enc(attack_vectors, heal_vectors)}

\* execute_vote_phase, lines 158-159
total_votes_enc(vote_vectors) == aggregate_encrypted_vectors(vote_cts(vote_vectors))

\* execute_night_phase, lines 100-104: the players the night kills, in order
RECURSIVE KilledFrom(_, _, _)
KilledFrom(killed_vector, alive_before, i) ==
    IF i > NumPlayers - 1 THEN <<>>
    ELSE IF killed_vector[i] > 0 /\ alive_before[i]
    THEN <<i>> \o KilledFrom(killed_vector, alive_before, i + 1)
    ELSE KilledFrom(killed_vector, alive_before, i + 1)

\* the loop without its players[i].alive test
KilledIgnoringAlive(killed_vector, alive_before) ==
    KilledFrom(killed_vector, [i \in Slots |-> TRUE], 0)

NightKilled(killed_vector, alive_before) == KilledFrom(killed_vector, alive_before, 0)

Range(seq) == {seq[j] : j \in 1..Len(seq)}

Max(S) == CHOOSE m \in S : \A x \in S : x <= m

Min(S) == CHOOSE m \in S : \A x \in S : m <= x

\* vote_counts.index(max_votes) without the tie test
EliminatedFirstOfTop(vote_counts) ==
    LET max_votes == Max({vote_counts[i] : i \in Slots})
    IN IF max_votes > 0 THEN Min({i \in Slots : vote_counts[i] = max_votes})
       ELSE None

\* the elimination with max_votes > 1 for max_votes > 0
EliminatedNeedsTwoVotes(vote_counts) ==
    LET max_votes == Max({vote_counts[i] : i \in Slots})
        max_vote_players == {i \in Slots : vote_counts[i] = max_votes}
        is_tie == Cardinality(max_vote_players) > 1
    IN IF max_votes > 1 /\ ~is_tie
       THEN Min({i \in Slots : vote_counts[i] = max_votes})
       ELSE None

\* execute_vote_phase, lines 168-176 and 193-207: the player voted out, or None
Eliminated(vote_counts) ==
    LET max_votes == Max({vote_counts[i] : i \in Slots})
        max_vote_players == {i \in Slots : vote_counts[i] = max_votes}
        is_tie == Cardinality(max_vote_players) > 1
    IN IF max_votes > 0 /\ ~is_tie
       THEN Min({i \in Slots : vote_counts[i] = max_votes})
       ELSE None

\* ------------------------------------------------------------------------
\* Win check
\* ------------------------------------------------------------------------

\* a peer's answer to GET /reveal_role
RevealOk(role) == [kind |-> "ok", role |-> role]

RevealStatus == [kind |-> "status", role |-> ""]

RevealException == [kind |-> "exception", role |-> ""]

\* GameEngine.check_win_condition, lines 135-163: the two counters
WinCounts(alive_now, role_of_human, reveal) ==
    LET human_mafia == IF alive_now[human_player_index] /\ role_of_human = "mafia"
                       THEN 1 ELSE 0
        human_citizen == IF alive_now[human_player_index] /\ role_of_human # "mafia"
                         THEN 1 ELSE 0
        asked == {i \in Agents : alive_now[i]}
        mafia == {i \in asked : reveal[i].kind = "ok" /\ reveal[i].role = "mafia"}
        citizens == {i \in asked :
                        \/ reveal[i].kind = "ok" /\ reveal[i].role # "mafia"
                        \/ reveal[i].kind = "exception"}
    IN [alive_mafia |-> human_mafia + Cardinality(mafia),
        alive_citizens |-> human_citizen + Cardinality(citizens)]

\* GameEngine.check_win_condition, lines 167-175
Winner(counts) ==
    IF counts.alive_mafia = 0 THEN "citizens"
    ELSE IF counts.alive_citizens <= counts.alive_mafia THEN "mafia"
    ELSE "None"

\* ------------------------------------------------------------------------
\* Roles
\* ------------------------------------------------------------------------

RoleNames == {"citizen", "mafia", "doctor", "police"}

\* an encoding table with the codes of mafia and doctor exchanged
RoleEncodingSwapped(role) ==
    CASE role = "citizen" -> 0
      [] role = "mafia" -> 2
      [] role = "doctor" -> 1
      [] role = "police" -> 3

ROLE_ENCODING(role) ==
    CASE role = "citizen" -> 0
      [] role = "mafia" -> 1
      [] role = "doctor" -> 2
      [] role = "police" -> 3

ROLE_DECODING(code) ==
    CASE code = 0 -> "citizen"
      [] code = 1 -> "mafia"
      [] code = 2 -> "doctor"
      [] code = 3 -> "police"

RoleSlots == 0..(NUM_ROLE_TYPES - 1)

role_to_one_hot(role) == [k \in RoleSlots |-> IF k = ROLE_ENCODING(role) THEN 1 ELSE 0]

one_hot_to_role(vector) ==
    IF \E i \in RoleSlots : vector[i] = 1
    THEN ROLE_DECODING(Min({i \in RoleSlots : vector[i] = 1}))
    ELSE "unknown"

\* GAME_CONFIG["role_distribution"]
role_distribution(n) ==
    CASE n = 4 -> [mafia |-> 1, doctor |-> 1, police |-> 1, citizen |-> 1]
      [] n = 5 -> [mafia |-> 1, doctor |-> 1, police |-> 1, citizen |-> 2]
      [] n = 6 -> [mafia |-> 2, doctor |-> 1, police |-> 1, citizen |-> 2]
      [] n = 7 -> [mafia |-> 2, doctor |-> 1, police |-> 1, citizen |-> 3]
      [] n = 8 -> [mafia |-> 2, doctor |-> 1, police |-> 1, citizen |-> 4]
      [] n = 9 -> [mafia |-> 3, doctor |-> 1, police |-> 1, citizen |-> 4]
      [] n = 10 -> [mafia |-> 3, doctor |-> 1, police |-> 1, citizen |-> 5]

\* the outcomes of random.shuffle(roles): every arrangement of the multiset
Shuffles(n) ==
    {f \in [Slots -> RoleNames] :
        \A r \in RoleNames :
            Cardinality({i \in Slots : f[i] = r}) = role_distribution(n)[r]}

\* RoleAssigner.generate_encrypted_roles: E_i encrypts the one-hot of roles[i]
generate_encrypted_roles(shuffled) ==
    [i \in Slots |->
        serialize_ciphertext(
            [Encrypt(MakePackedPlaintext(
                [k \in Slots |-> IF k \in RoleSlots
                                 THEN role_to_one_hot(shuffled[i])[k] ELSE 0]))
             EXCEPT !.from = {<<"role", i>>}])]

\* DKGNetworkClient.collect_partial_decryptions: is_lead False to every agent
RECURSIVE DkgGatherPartials(_)
DkgGatherPartials(i) ==
    IF i > NumPlayers - 1 THEN <<>>
    ELSE <<PeerPartialDecrypt(i, FALSE)>> \o DkgGatherPartials(i + 1)

dkg_collect_partial_decryptions == DkgGatherPartials(1)

\* RoleAssigner.decrypt_own_role and one entry of
\* decrypt_all_roles_for_game_end: the agents' partials, then the own lead
RoleShares == dkg_collect_partial_decryptions \o <<partial_decrypt_lead(human_player_index)>>

DecryptRole(encrypted_role_b64) ==
    LET ct == deserialize_ciphertext(encrypted_role_b64)
        decrypted_vector == GetPackedValue(fusion_decrypt(ct, RoleShares))
    IN one_hot_to_role(decrypted_vector)

\* ------------------------------------------------------------------------
\* State
\* ------------------------------------------------------------------------

VARIABLES
    \* the night tally, stepped through its two aggregation loops
    k_pc, k_i, k_result, k_total_attacks, k_total_heals, k_killed_vector,
    k_attack_targets, k_heal_targets,
    \* the session: the driver (run_game_loop or the TUI's _run_game), its
    \* position, and the fields of GameEngine and GamePhases
    driver, pc, encrypted_roles, human_role, alive, phase, day_number,
    last_killed, last_voted_out, last_vote_counts, pending_human_action,
    human_action_ready, winner, all_roles,
    \* the role list generate_encrypted_roles shuffled and encrypted
    roles,
    \* what the handler that ran last did: its name, whether it raised, the
    \* alive flags it started from, the killed vector it decrypted, the
    \* ciphertexts it sent for partial decryption, the share lists it fused,
    \* the peers whose request failed, the peers it asked for GET /reveal_role
    handler, raised, alive_before, killed_vector, submitted, fused, req_failed,
    reveal_asked,
    \* the two counters of the last win check
    alive_mafia, alive_citizens,
    \* one call of collect_all_actions: its arguments, the peers' answers as
    \* they come in, what the call returns, the ciphertexts the human's
    \* callback sent out for an investigation, and the vote counts
    \* execute_vote_phase decrypts from the returned vote vectors
    c_pc, c_i, c_phase, c_human_alive, c_role, c_human_target, c_kinds,
    c_cached_results, c_responses, c_lists, c_investigated, c_vote_counts,
    \* session setup, one request at a time: the position in run_dkg_protocol
    \* and assign_roles_blindly, the loop index, the agent being helped, the
    \* peers whose dkg_setup failed unnoticed, the join requests not yet
    \* answered, the keys, the requests sent so far, the roles and their
    \* ciphertexts, the partials list being built, and the partial
    \* decryptions each party holds
    d_pc, d_i, d_agent, d_setup_failed, d_inflight, d_current_pk, d_responses,
    d_joint_public_key, d_keys, d_combined, d_mults, d_jmk, d_log, d_roles,
    d_encrypted_roles, d_partials, d_human_role, d_held,
    \* the role list of generate_encrypted_roles: the position, num_players,
    \* the list, the loop index
    s_pc, s_num_players, s_roles, s_i,
    \* one call of parallel_decrypt: the position, the ciphertext, the
    \* requester, each player's answer to investigate_parallel, and what the
    \* call returns
    f_pc, f_ciphertext_b64, f_requester_index, f_answers, f_result,
    \* one call of get_human_action: the position, the phase, the human's
    \* role, the alive flags, the engine's human_action_ready and
    \* pending_human_action, the targets submitted so far (the TUI's pending
    \* action, the lines typed at the prompt), those the prompt refused, and
    \* the triplet returned
    h_pc, h_phase, h_role, h_alive, h_ready, h_pending, h_submitted, h_rejected,
    h_vectors,
    \* the event loop during one call of collect_all_actions: the position of
    \* the calling coroutine, the position of ai_task, each peer's request
    \* task, the loop's queue of ready tasks, the peers with a cached result,
    \* whether the human is alive, and the request tasks that had posted
    \* when the human's action was asked for
    e_pc, e_ai, e_child, e_ready, e_cached, e_human_alive, e_begun_at_human,
    \* one decryption on behalf of a requester: the position, who started it
    \* and how, the requester, the ciphertext, the party the request is at,
    \* remaining_order, partial_results, the parties that have answered in
    \* order, and the vector the requester ends with
    r_pc, r_kind, r_requester, r_ciphertext_b64, r_at, r_remaining, r_partials,
    r_visited, r_result,
    \* the chat screen: the chat history and its next_id, the engine's
    \* last_displayed_msg_id, how often each message was put on the screen as
    \* an agent's, the position of the polling task, the agents' messages it
    \* has fetched and not yet added, and the position of the submit handler
    ch_messages, ch_next_id, last_displayed_msg_id, ch_shown, ch_poll_pc,
    ch_pending, ch_submit_pc

killVars == <<k_pc, k_i, k_result, k_total_attacks, k_total_heals,
              k_killed_vector, k_attack_targets, k_heal_targets>>

engineVars == <<driver, pc, encrypted_roles, human_role, alive, phase, day_number,
                last_killed, last_voted_out, last_vote_counts,
                pending_human_action, human_action_ready, winner, all_roles,
                roles>>

localVars == <<handler, raised, alive_before, killed_vector, submitted, fused,
               req_failed, reveal_asked, alive_mafia, alive_citizens>>

gameVars == <<engineVars, localVars>>

collectVars == <<c_pc, c_i, c_phase, c_human_alive, c_role, c_human_target,
                 c_kinds, c_cached_results, c_responses, c_lists,
                 c_investigated, c_vote_counts>>

dkgVars == <<d_pc, d_i, d_agent, d_setup_failed, d_inflight, d_current_pk,
             d_responses, d_joint_public_key, d_keys, d_combined, d_mults, d_jmk,
             d_log, d_roles, d_encrypted_roles, d_partials, d_human_role, d_held>>

shuffleVars == <<s_pc, s_num_players, s_roles, s_i>>

fanoutVars == <<f_pc, f_ciphertext_b64, f_requester_index, f_answers, f_result>>

humanVars == <<h_pc, h_phase, h_role, h_alive, h_ready, h_pending, h_submitted,
               h_rejected, h_vectors>>

loopVars == <<e_pc, e_ai, e_child, e_ready, e_cached, e_human_alive,
              e_begun_at_human>>

relayVars == <<r_pc, r_kind, r_requester, r_ciphertext_b64, r_at, r_remaining,
               r_partials, r_visited, r_result>>

chatVars == <<ch_messages, ch_next_id, last_displayed_msg_id, ch_shown,
              ch_poll_pc, ch_pending, ch_submit_pc>>

vars == <<killVars, gameVars, collectVars, dkgVars, shuffleVars, fanoutVars,
          humanVars, loopVars, relayVars, chatVars>>

\* a party's target: a player index or the skip value
Targets == Slots \cup {NoTarget}

NoCiphertext == [pt |-> <<>>, from |-> {}]

NoVector == [k \in Slots |-> 0]

\* the result of a parallel_decrypt call that has not returned
NoResult == [raised |-> FALSE, partials |-> <<>>, plain |-> NoVector]

\* ------------------------------------------------------------------------
\* The night tally (execute_night_phase, lines 73-89), one loop step at a
\* time, over arbitrary one-hot-or-zero attack and heal vectors
\* ------------------------------------------------------------------------

TargetSet(t) == IF t = NoTarget THEN {} ELSE {t}

NoLists == [raised |-> FALSE, vote |-> <<>>, attack |-> <<>>, heal |-> <<>>]

\* no call of collect_all_actions under way
CollectIdle ==
    /\ c_pc = "idle"
    /\ c_i = 0
    /\ c_phase = "setup"
    /\ c_human_alive = TRUE
    /\ c_role = "None"
    /\ c_human_target = NoTarget
    /\ c_kinds = <<>>
    /\ c_cached_results = <<>>
    /\ c_responses = <<>>
    /\ c_lists = NoLists
    /\ c_investigated = {}
    /\ c_vote_counts = NoVector

\* the session before GameEngine is driven at all
GameIdle ==
    /\ driver = "none"
    /\ pc = "idle"
    /\ encrypted_roles = <<>>
    /\ human_role = "None"
    /\ alive = <<>>
    /\ phase = "setup"
    /\ day_number = 0
    /\ last_killed = <<>>
    /\ last_voted_out = None
    /\ last_vote_counts = <<>>
    /\ pending_human_action = None
    /\ human_action_ready = FALSE
    /\ winner = "None"
    /\ all_roles = <<>>
    /\ roles = <<>>
    /\ handler = "none"
    /\ raised = "no"
    /\ alive_before = <<>>
    /\ killed_vector = NoVector
    /\ submitted = {}
    /\ fused = <<>>
    /\ req_failed = {}
    /\ reveal_asked = {}
    /\ alive_mafia = 0
    /\ alive_citizens = 0

\* a key: its kind, the parties whose secret shares are folded into it (in
\* the order they were added) and, for a multiplication key, the parties of
\* the combined key-switch key it was made from
Key(kind, of, over) == [kind |-> kind, of |-> of, over |-> over]

NoKey == Key("none", <<>>, <<>>)

\* session setup before it is run at all
DkgIdle ==
    /\ d_pc = "idle"
    /\ d_i = 0
    /\ d_agent = 0
    /\ d_setup_failed = {}
    /\ d_inflight = {}
    /\ d_current_pk = NoKey
    /\ d_responses = <<>>
    /\ d_joint_public_key = NoKey
    /\ d_keys = <<>>
    /\ d_combined = NoKey
    /\ d_mults = <<>>
    /\ d_jmk = NoKey
    /\ d_log = <<>>
    /\ d_roles = <<>>
    /\ d_encrypted_roles = <<>>
    /\ d_partials = <<>>
    /\ d_human_role = "None"
    /\ d_held = <<>>

\* generate_encrypted_roles before it is called
ShuffleIdle ==
    /\ s_pc = "idle"
    /\ s_num_players = 0
    /\ s_roles = <<>>
    /\ s_i = 0

\* the event loop before collect_all_actions is called
LoopIdle ==
    /\ e_pc = "idle"
    /\ e_ai = "none"
    /\ e_child = [k \in Agents |-> "none"]
    /\ e_ready = <<>>
    /\ e_cached = {}
    /\ e_human_alive = TRUE
    /\ e_begun_at_human = {}

\* no decryption for a requester under way
RelayIdle ==
    /\ r_pc = "idle"
    /\ r_kind = "none"
    /\ r_requester = None
    /\ r_ciphertext_b64 = serialize_ciphertext(NoCiphertext)
    /\ r_at = None
    /\ r_remaining = <<>>
    /\ r_partials = <<>>
    /\ r_visited = <<>>
    /\ r_result = NoVector

\* the chat screen before it is mounted
ChatIdle ==
    /\ ch_messages = <<>>
    /\ ch_next_id = 0
    /\ last_displayed_msg_id = -1
    /\ ch_shown = [id \in 0..(MaxChat - 1) |-> 0]
    /\ ch_poll_pc = "idle"
    /\ ch_pending = <<>>
    /\ ch_submit_pc = "idle"

\* get_human_action before it is called
HumanIdle ==
    /\ h_pc = "idle"
    /\ h_phase = "setup"
    /\ h_role = "None"
    /\ h_alive = [i \in Slots |-> TRUE]
    /\ h_ready = FALSE
    /\ h_pending = None
    /\ h_submitted = {}
    /\ h_rejected = {}
    /\ h_vectors = <<>>

\* parallel_decrypt before it is called
FanoutIdle ==
    /\ f_pc = "idle"
    /\ f_ciphertext_b64 = serialize_ciphertext(NoCiphertext)
    /\ f_requester_index = None
    /\ f_answers = [i \in Slots |-> "none"]
    /\ f_result = NoResult

KillIdle ==
    /\ k_pc = "idle"
    /\ k_i = 0
    /\ k_result = NoCiphertext
    /\ k_total_attacks = NoCiphertext
    /\ k_total_heals = NoCiphertext
    /\ k_killed_vector = NoVector
    /\ k_attack_targets = {}
    /\ k_heal_targets = {}

\* attacks_enc[0] is the first value of the aggregation loop
KillInit ==
    \E t \in Targets :
        /\ GameIdle
        /\ CollectIdle
        /\ DkgIdle
        /\ ShuffleIdle
        /\ FanoutIdle
        /\ HumanIdle
        /\ LoopIdle
        /\ RelayIdle
        /\ ChatIdle
        /\ k_pc = "agg_attack"
        /\ k_i = 1
        /\ k_result = create_one_hot_vector(t)
        /\ k_total_attacks = NoCiphertext
        /\ k_total_heals = NoCiphertext
        /\ k_killed_vector = NoVector
        /\ k_attack_targets = TargetSet(t)
        /\ k_heal_targets = {}

\* one iteration of the loop of aggregate_encrypted_vectors over attacks_enc
AggregateAttackStep ==
    /\ k_pc = "agg_attack"
    /\ k_i < NumPlayers
    /\ \E t \in Targets :
        /\ k_result' = EvalAdd(k_result, create_one_hot_vector(t))
        /\ k_attack_targets' = k_attack_targets \cup TargetSet(t)
    /\ k_i' = k_i + 1
    /\ UNCHANGED <<gameVars, collectVars, dkgVars, shuffleVars, fanoutVars,
                   humanVars, loopVars, relayVars, chatVars>>
    /\ UNCHANGED <<k_pc, k_total_attacks, k_total_heals, k_killed_vector, k_heal_targets>>

\* total_attacks is returned; the heal aggregation starts from heals_enc[0]
AggregateAttackDone ==
    /\ k_pc = "agg_attack"
    /\ k_i = NumPlayers
    /\ k_total_attacks' = k_result
    /\ \E t \in Targets :
        /\ k_result' = create_one_hot_vector(t)
        /\ k_heal_targets' = TargetSet(t)
    /\ k_i' = 1
    /\ k_pc' = "agg_heal"
    /\ UNCHANGED <<gameVars, collectVars, dkgVars, shuffleVars, fanoutVars,
                   humanVars, loopVars, relayVars, chatVars>>
    /\ UNCHANGED <<k_total_heals, k_killed_vector, k_attack_targets>>

AggregateHealStep ==
    /\ k_pc = "agg_heal"
    /\ k_i < NumPlayers
    /\ \E t \in Targets :
        /\ k_result' = EvalAdd(k_result, create_one_hot_vector(t))
        /\ k_heal_targets' = k_heal_targets \cup TargetSet(t)
    /\ k_i' = k_i + 1
    /\ UNCHANGED <<gameVars, collectVars, dkgVars, shuffleVars, fanoutVars,
                   humanVars, loopVars, relayVars, chatVars>>
    /\ UNCHANGED <<k_pc, k_total_attacks, k_total_heals, k_killed_vector, k_attack_targets>>

\* compute_killed_vector, then the fused plaintext of the killed vector
ComputeKilled ==
    /\ k_pc = "agg_heal"
    /\ k_i = NumPlayers
    /\ k_total_heals' = k_result
    /\ k_killed_vector' =
           GetPackedValue(compute_killed_vector(k_total_attacks, k_result).pt)
    /\ k_pc' = "done"
    /\ UNCHANGED <<gameVars, collectVars, dkgVars, shuffleVars, fanoutVars,
                   humanVars, loopVars, relayVars, chatVars>>
    /\ UNCHANGED <<k_i, k_result, k_total_attacks, k_attack_targets, k_heal_targets>>

NextKill ==
    \/ AggregateAttackStep
    \/ AggregateAttackDone
    \/ AggregateHealStep
    \/ ComputeKilled

SpecKill == KillInit /\ [][NextKill]_vars

\* ------------------------------------------------------------------------
\* The peers, as the Coordinator sees them
\* ------------------------------------------------------------------------

\* a peer that does not answer request_action (timeout, connection error)
Silent == -3

\* a peer that answers request_action with an HTTP error status and a JSON body
HttpError == -4

\* the role peer i decrypted from its own ciphertext E_i
AgentRole(i) == one_hot_to_role(deserialize_ciphertext(encrypted_roles[i]).pt)

\* the triplet a peer builds for its choice: only the vector of its own role
\* is real, a dead peer sends zeros
PeerTriplet(phase_name, role, is_alive, choice) ==
    LET zero_str == create_zero_vector_str
    IN IF ~is_alive \/ choice \notin Slots
       THEN <<zero_str, zero_str, zero_str>>
       ELSE create_human_action_vectors(choice, role, phase_name)

\* the targets the modelled peers choose among: skip, or a player up to MaxTarget
PeerTargets == {NoTarget} \cup (0..MaxTarget)

\* the one peer whose requests can fail in the modelled sessions
FlakyPeer == NumPlayers - 1

PeerFaults(i) == IF i = FlakyPeer THEN {Silent} ELSE {}

PeerNightChoices(i) ==
    (IF alive[i] /\ AgentRole(i) \in {"mafia", "doctor"}
     THEN PeerTargets ELSE {NoTarget}) \cup PeerFaults(i)

PeerVoteChoices(i) ==
    (IF alive[i] THEN PeerTargets ELSE {NoTarget}) \cup PeerFaults(i)

NightBehaviours == {b \in [Agents -> PeerTargets \cup {Silent}] :
                       \A i \in Agents : b[i] \in PeerNightChoices(i)}

\* in a vote the flaky peer can also answer with an HTTP error
VoteBehaviours ==
    {b \in [Agents -> PeerTargets \cup {Silent, HttpError}] :
        \A i \in Agents :
            \/ b[i] \in PeerVoteChoices(i)
            \/ b[i] = HttpError /\ i = FlakyPeer /\ alive[i]}

\* the HTTP answer of peer i to request_action
ActionResponse(phase_name, i, b) ==
    IF b[i] = Silent THEN [status |-> "timeout", data |-> ErrorBody]
    ELSE IF b[i] = HttpError THEN [status |-> "error", data |-> ErrorBody]
    ELSE [status |-> "ok",
          data |-> TripletData(PeerTriplet(phase_name, AgentRole(i), alive[i], b[i]))]

ActionResponses(phase_name, b) == [i \in Agents |-> ActionResponse(phase_name, i, b)]

\* the peers whose partial_decrypt request raises: none, or the flaky one
DecryptFailures == {{}, {FlakyPeer}}

\* ------------------------------------------------------------------------
\* The drivers' screens
\* ------------------------------------------------------------------------

\* NightScreen: the cards that can be clicked, the skip button of the doctor
NightScreenTargets ==
    IF alive[human_player_index] /\ human_role \in {"mafia", "doctor", "police"}
    THEN {i \in Slots : alive[i] /\ ~(human_role \in {"mafia", "police"}
                                      /\ i = human_player_index)}
         \cup (IF human_role = "doctor" THEN {-1} ELSE {})
    ELSE {None}

\* VoteScreen: the cards of the other live players, the abstain button
VoteScreenTargets ==
    IF alive[human_player_index]
    THEN {i \in Slots : alive[i] /\ i # human_player_index} \cup {-1}
    ELSE {-1}

\* app.py: "Pass TUI action to game engine"
PendingFromScreen(selected_target) ==
    IF alive[human_player_index] /\ selected_target # None
    THEN selected_target ELSE -1

\* what the CLI prompt can return for the phase
CliEntries(phase_name) ==
    IF alive[human_player_index] /\ CanAct(phase_name, human_role)
    THEN {e \in Targets : CliAccepts({i \in Slots : alive[i]}, e)}
    ELSE {-1}

\* start_agent_voting: the JSON body of every live peer that answered at all
agent_vote_results(b) ==
    [i \in {a \in Agents : alive[a] /\ b[a] # Silent} |->
        ActionResponse("vote", i, b).data]

\* ------------------------------------------------------------------------
\* The session: setup, then night / win check / day / vote / win check
\* ------------------------------------------------------------------------

\* GameEngine.get_survivors and get_dead_players
\* the list of all indices, without the alive filter
SurvivorsUnfiltered == DOMAIN alive

get_survivors == {i \in DOMAIN alive : alive[i]}

get_dead_players == {i \in DOMAIN alive : ~alive[i]}

FusionOf(kind, index, shares) == [kind |-> kind, index |-> index, shares |-> shares]

\* GameEngine() as run by the CLI entry point or by the TUI
Init ==
    /\ KillIdle
    /\ CollectIdle
    /\ DkgIdle
    /\ ShuffleIdle
    /\ FanoutIdle
    /\ HumanIdle
    /\ LoopIdle
    /\ RelayIdle
    /\ ChatIdle
    /\ driver \in {"cli", "tui"}
    /\ pc = "setup"
    /\ encrypted_roles = <<>>
    /\ human_role = "None"
    /\ alive = <<>>
    /\ phase = "setup"
    /\ day_number = 0
    /\ last_killed = <<>>
    /\ last_voted_out = None
    /\ last_vote_counts = <<>>
    /\ pending_human_action = None
    /\ human_action_ready = FALSE
    /\ winner = "None"
    /\ all_roles = <<>>
    /\ roles = <<>>
    /\ handler = "none"
    /\ raised = "no"
    /\ alive_before = <<>>
    /\ killed_vector = NoVector
    /\ submitted = {}
    /\ fused = <<>>
    /\ req_failed = {}
    /\ reveal_asked = {}
    /\ alive_mafia = 0
    /\ alive_citizens = 0

\* GameEngine.setup_game: lobby, key generation and blind role assignment.
\* setup_ok: every peer answered every setup request.
SetupGame ==
    /\ pc = "setup"
    /\ \E shuffled \in Shuffles(NumPlayers), setup_ok \in BOOLEAN :
        LET roles_enc == generate_encrypted_roles(shuffled)
        IN /\ alive' = [i \in Slots |-> TRUE]
           /\ IF setup_ok
              THEN /\ encrypted_roles' = roles_enc
                   /\ roles' = shuffled
                   /\ human_role' = DecryptRole(roles_enc[human_player_index])
                   /\ submitted' = {deserialize_ciphertext(roles_enc[human_player_index])}
                   /\ fused' = <<FusionOf("own_role", human_player_index, RoleShares)>>
                   /\ raised' = "no"
                   /\ pc' = "night"
              ELSE /\ encrypted_roles' = <<>>
                   /\ roles' = <<>>
                   /\ human_role' = "None"
                   /\ submitted' = {}
                   /\ fused' = <<>>
                   /\ raised' = "setup"
                   /\ pc' = "aborted"
    /\ handler' = "setup_game"
    /\ alive_before' = alive
    /\ killed_vector' = NoVector
    /\ req_failed' = {}
    /\ reveal_asked' = {}
    /\ alive_mafia' = 0
    /\ alive_citizens' = 0
    /\ UNCHANGED <<driver, phase, day_number, last_killed, last_voted_out,
                   last_vote_counts, pending_human_action, human_action_ready,
                   winner, all_roles>>
    /\ UNCHANGED <<killVars, collectVars, dkgVars, shuffleVars, fanoutVars,
                   humanVars, loopVars, relayVars, chatVars>>

\* GamePhases.execute_night_phase, called with the engine's fields.  ready and
\* pending are human_action_ready and pending_human_action at the call,
\* entered the line the CLI prompt accepts, b the peers' behaviour.
execute_night_phase(ready, pending, entered, b, failed) ==
    LET survivors == get_survivors
        human_triplet == get_human_action("night", survivors, human_role,
                                          ready, pending, entered)
        lists == collect_all_actions(alive[human_player_index], "night",
                                     human_triplet, <<>>,
                                     ActionResponses("night", b))
        killed_enc == killed_vector_enc(lists.attack, lists.heal)
        decrypted == decrypt_vector(killed_enc, failed)
    IN /\ day_number' = day_number + 1
       /\ human_action_ready' = (ready /\ ~alive[human_player_index])
       /\ pending_human_action' =
              IF ready /\ alive[human_player_index] THEN None ELSE pending
       /\ handler' = "execute_night_phase"
       /\ alive_before' = alive
       /\ req_failed' = {i \in Agents : b[i] = Silent}
       /\ reveal_asked' = {}
       /\ alive_mafia' = 0
       /\ alive_citizens' = 0
       /\ submitted' = NightDecrypted(lists.attack, lists.heal)
       /\ IF decrypted.raised
          THEN /\ raised' = "decrypt"
               /\ killed_vector' = NoVector
               /\ fused' = <<>>
               /\ pc' = "aborted"
               /\ UNCHANGED <<alive, last_killed>>
          ELSE /\ raised' = "no"
               /\ killed_vector' = decrypted.plain
               /\ fused' = <<FusionOf("killed", -1, decrypted.shares)>>
               /\ last_killed' = NightKilled(decrypted.plain, alive)
               /\ alive' = [i \in Slots |->
                              alive[i] /\ i \notin Range(NightKilled(decrypted.plain, alive))]
               /\ pc' = IF driver = "tui" THEN "night_result" ELSE "check1"
       /\ UNCHANGED <<driver, encrypted_roles, human_role, phase, last_voted_out,
                      last_vote_counts, winner, all_roles, roles>>
       /\ UNCHANGED <<killVars, collectVars, dkgVars, shuffleVars, fanoutVars,
                      humanVars, loopVars, relayVars, chatVars>>

\* run_game_loop: await self.execute_night_phase()
CliNight ==
    /\ driver = "cli"
    /\ pc = "night"
    /\ day_number < MaxDay
    /\ \E entered \in CliEntries("night"), b \in NightBehaviours,
          failed \in DecryptFailures :
        execute_night_phase(human_action_ready, pending_human_action, entered,
                            b, failed)

\* _run_game: the night screen, then execute_night_phase
TuiNight ==
    /\ driver = "tui"
    /\ pc = "night"
    /\ day_number < MaxDay
    /\ \E selected_target \in NightScreenTargets, b \in NightBehaviours,
          failed \in DecryptFailures :
        execute_night_phase(TRUE, PendingFromScreen(selected_target), -1,
                            b, failed)

\* the ciphertexts execute_vote_phase hands to threshold_decrypt_vector
VoteDecrypted(vote_vectors) == {total_votes_enc(vote_vectors)}

\* GameEngine.execute_vote_phase and GamePhases.execute_vote_phase
execute_vote_phase(ready, pending, entered, cached_results, b, failed) ==
    LET survivors == get_survivors
        human_triplet == get_human_action("vote", survivors, human_role,
                                          ready, pending, entered)
        lists == collect_all_actions(alive[human_player_index], "vote",
                                     human_triplet, cached_results,
                                     ActionResponses("vote", b))
        decrypted == decrypt_vector(total_votes_enc(lists.vote), failed)
        vote_counts == decrypted.plain
        eliminated == Eliminated(vote_counts)
    IN /\ phase' = "vote"
       /\ human_action_ready' = (ready /\ ~alive[human_player_index])
       /\ pending_human_action' =
              IF ready /\ alive[human_player_index] THEN None ELSE pending
       /\ handler' = "execute_vote_phase"
       /\ alive_before' = alive
       /\ req_failed' = {i \in Agents : b[i] \in {Silent, HttpError}}
       /\ reveal_asked' = {}
       /\ alive_mafia' = 0
       /\ alive_citizens' = 0
       /\ killed_vector' = NoVector
       /\ IF lists.raised
          THEN /\ raised' = "collect"
               /\ submitted' = {}
               /\ fused' = <<>>
               /\ pc' = "aborted"
               /\ UNCHANGED <<alive, last_voted_out, last_vote_counts>>
          ELSE IF decrypted.raised
          THEN /\ raised' = "decrypt"
               /\ submitted' = VoteDecrypted(lists.vote)
               /\ fused' = <<>>
               /\ pc' = "aborted"
               /\ UNCHANGED <<alive, last_voted_out, last_vote_counts>>
          ELSE /\ raised' = "no"
               /\ submitted' = VoteDecrypted(lists.vote)
               /\ fused' = <<FusionOf("votes", -1, decrypted.shares)>>
               /\ last_vote_counts' = vote_counts
               /\ last_voted_out' = eliminated
               /\ alive' = IF eliminated # None
                           THEN [alive EXCEPT ![eliminated] = FALSE]
                           ELSE alive
               /\ pc' = IF driver = "tui" THEN "vote_result" ELSE "check2"
       /\ UNCHANGED <<driver, encrypted_roles, human_role, day_number, last_killed,
                      winner, all_roles, roles>>
       /\ UNCHANGED <<killVars, collectVars, dkgVars, shuffleVars, fanoutVars,
                      humanVars, loopVars, relayVars, chatVars>>

\* run_game_loop: await self.execute_vote_phase(), without a cache
CliVote ==
    /\ driver = "cli"
    /\ pc = "vote"
    /\ \E entered \in CliEntries("vote"), b \in VoteBehaviours,
          failed \in DecryptFailures :
        execute_vote_phase(human_action_ready, pending_human_action, entered,
                           <<>>, b, failed)

\* _run_game: start_agent_voting, the vote screen, then execute_vote_phase
\* with the answers start_agent_voting has stored
TuiVote ==
    /\ driver = "tui"
    /\ pc = "vote"
    /\ \E selected_target \in VoteScreenTargets, b \in VoteBehaviours,
          failed \in DecryptFailures :
        execute_vote_phase(TRUE, PendingFromScreen(selected_target), -1,
                           agent_vote_results(b), b, failed)

\* a day phase that also forgets who was killed in the night
DayPhaseClearsLastKilled ==
    /\ pc = "day"
    /\ day_number < MaxDay
    /\ phase' = "day"
    /\ last_killed' = <<>>
    /\ pc' = "vote"
    /\ handler' = "execute_day_phase"
    /\ raised' = "no"
    /\ alive_before' = alive
    /\ killed_vector' = NoVector
    /\ submitted' = {}
    /\ fused' = <<>>
    /\ req_failed' = {}
    /\ reveal_asked' = {}
    /\ alive_mafia' = 0
    /\ alive_citizens' = 0
    /\ UNCHANGED <<driver, encrypted_roles, human_role, alive, day_number,
                   last_voted_out, last_vote_counts, pending_human_action,
                   human_action_ready, winner, all_roles, roles>>
    /\ UNCHANGED <<killVars, collectVars, dkgVars, shuffleVars, fanoutVars,
                   humanVars, loopVars, relayVars, chatVars>>

\* execute_day_phase (CLI) and the discussion of the TUI: phase = "day"
DayPhase ==
    /\ pc = "day"
    /\ day_number < MaxDay
    /\ phase' = "day"
    /\ pc' = "vote"
    /\ handler' = "execute_day_phase"
    /\ raised' = "no"
    /\ alive_before' = alive
    /\ killed_vector' = NoVector
    /\ submitted' = {}
    /\ fused' = <<>>
    /\ req_failed' = {}
    /\ reveal_asked' = {}
    /\ alive_mafia' = 0
    /\ alive_citizens' = 0
    /\ UNCHANGED <<driver, encrypted_roles, human_role, alive, day_number,
                   last_killed, last_voted_out, last_vote_counts,
                   pending_human_action, human_action_ready, winner, all_roles,
                   roles>>
    /\ UNCHANGED <<killVars, collectVars, dkgVars, shuffleVars, fanoutVars,
                   humanVars, loopVars, relayVars, chatVars>>

\* MafiaApp._get_victim_roles: the victims whose role is fetched with
\* AgentCommunicator.get_agent_role (GET /reveal_role); the human's own role
\* is read from the engine
get_victim_roles_asked(victim_indices) ==
    {idx \in victim_indices : idx # human_player_index}

\* what the result screens of the TUI do before the win check
ResultScreen(victim_indices, next_pc) ==
    /\ reveal_asked' = get_victim_roles_asked(victim_indices)
    /\ alive_mafia' = 0
    /\ alive_citizens' = 0
    /\ pc' = next_pc
    /\ raised' = "no"
    /\ alive_before' = alive
    /\ killed_vector' = NoVector
    /\ submitted' = {}
    /\ fused' = <<>>
    /\ req_failed' = {}
    /\ UNCHANGED <<driver, encrypted_roles, human_role, alive, phase, day_number,
                   last_killed, last_voted_out, last_vote_counts,
                   pending_human_action, human_action_ready, winner, all_roles,
                   roles>>
    /\ UNCHANGED <<killVars, collectVars, dkgVars, shuffleVars, fanoutVars,
                   humanVars, loopVars, relayVars, chatVars>>

\* _run_game, night result screen: the roles of the players killed this night
TuiNightResult ==
    /\ pc = "night_result"
    /\ handler' = "night_result"
    /\ ResultScreen(Range(last_killed), "check1")

\* _run_game, vote result screen: the role of the player voted out, if any
TuiVoteResult ==
    /\ pc = "vote_result"
    /\ handler' = "vote_result"
    /\ ResultScreen(IF last_voted_out # None THEN {last_voted_out} ELSE {}, "check2")

\* the answer of live peer i to GET /reveal_role
RevealKinds == {"ok", "status", "exception"}

RevealAnswer(i, kind) ==
    IF kind = "ok" THEN RevealOk(AgentRole(i))
    ELSE IF kind = "status" THEN RevealStatus
    ELSE RevealException

RevealInputs ==
    {r \in [Agents -> RevealKinds] :
        \A i \in Agents : (~alive[i] \/ i # FlakyPeer) => r[i] = "ok"}

\* a driver that goes on whatever the win check returned
ContinuesAfterWinner(result, at) == IF at = "check1" THEN "day" ELSE "night"

\* the driver's branch on the result of the win check: "if winner:" ends the
\* game (end_game in the CLI, the reveal in the TUI), otherwise the loop goes
\* on with the day after a night and with the night after a vote
after_win_check(result, at) ==
    IF result # "None"
    THEN (IF driver = "cli" THEN "end_game" ELSE "reveal")
    ELSE IF at = "check1" THEN "day" ELSE "night"

\* GameEngine.check_win_condition and the driver's branch on its result
CheckWinCondition ==
    /\ pc \in {"check1", "check2"}
    /\ \E r \in RevealInputs :
        LET reveal == [i \in Agents |-> RevealAnswer(i, r[i])]
            result == Winner(WinCounts(alive, human_role, reveal))
        IN /\ winner' = result
           /\ req_failed' = {i \in Agents : r[i] # "ok"}
           /\ reveal_asked' = {i \in Agents : alive[i]}
           /\ alive_mafia' = WinCounts(alive, human_role, reveal).alive_mafia
           /\ alive_citizens' =
                  WinCounts(alive, human_role, reveal).alive_citizens
           /\ pc' = after_win_check(result, pc)
    /\ handler' = "check_win_condition"
    /\ raised' = "no"
    /\ alive_before' = alive
    /\ killed_vector' = NoVector
    /\ submitted' = {}
    /\ fused' = <<>>
    /\ UNCHANGED <<driver, encrypted_roles, human_role, alive, phase, day_number,
                   last_killed, last_voted_out, last_vote_counts,
                   pending_human_action, human_action_ready, all_roles, roles>>
    /\ UNCHANGED <<killVars, collectVars, dkgVars, shuffleVars, fanoutVars,
                   humanVars, loopVars, relayVars, chatVars>>

\* GameEngine.end_game (CLI)
EndGame ==
    /\ pc = "end_game"
    /\ phase' = "end"
    /\ pc' = "over"
    /\ handler' = "end_game"
    /\ raised' = "no"
    /\ alive_before' = alive
    /\ killed_vector' = NoVector
    /\ submitted' = {}
    /\ fused' = <<>>
    /\ req_failed' = {}
    /\ reveal_asked' = {}
    /\ alive_mafia' = 0
    /\ alive_citizens' = 0
    /\ UNCHANGED <<driver, encrypted_roles, human_role, alive, day_number,
                   last_killed, last_voted_out, last_vote_counts,
                   pending_human_action, human_action_ready, winner, all_roles,
                   roles>>
    /\ UNCHANGED <<killVars, collectVars, dkgVars, shuffleVars, fanoutVars,
                   humanVars, loopVars, relayVars, chatVars>>

\* GameEngine.decrypt_all_roles (TUI): one fusion per player's role
\* ciphertext; a failing partial_decrypt request raises
RECURSIVE RoleFusions(_)
RoleFusions(i) ==
    IF i > NumPlayers - 1 THEN <<>>
    ELSE <<FusionOf("role", i, RoleShares)>> \o RoleFusions(i + 1)

\* a reveal that reads the ciphertext of the next player
RevealRotated == [i \in Slots |-> DecryptRole(encrypted_roles[(i + 1) % NumPlayers])]

\* DKGCoordinator.decrypt_all_roles_for_game_end, the loop over
\* enumerate(self.all_encrypted_roles)
decrypt_all_roles_for_game_end == [i \in Slots |-> DecryptRole(encrypted_roles[i])]

DecryptAllRoles ==
    /\ pc = "reveal"
    /\ \E reveal_ok \in BOOLEAN :
        IF reveal_ok
        THEN /\ all_roles' = decrypt_all_roles_for_game_end
             /\ submitted' = {deserialize_ciphertext(encrypted_roles[i]) : i \in Slots}
             /\ fused' = RoleFusions(0)
             /\ raised' = "no"
             /\ pc' = "over"
        ELSE /\ all_roles' = <<>>
             /\ submitted' = {}
             /\ fused' = <<>>
             /\ raised' = "reveal"
             /\ pc' = "aborted"
    /\ handler' = "decrypt_all_roles"
    /\ alive_before' = alive
    /\ killed_vector' = NoVector
    /\ req_failed' = {}
    /\ reveal_asked' = {}
    /\ alive_mafia' = 0
    /\ alive_citizens' = 0
    /\ UNCHANGED <<driver, encrypted_roles, human_role, alive, phase, day_number,
                   last_killed, last_voted_out, last_vote_counts,
                   pending_human_action, human_action_ready, winner, roles>>
    /\ UNCHANGED <<killVars, collectVars, dkgVars, shuffleVars, fanoutVars,
                   humanVars, loopVars, relayVars, chatVars>>

Next ==
    \/ SetupGame
    \/ CliNight
    \/ TuiNight
    \/ TuiNightResult
    \/ TuiVoteResult
    \/ CheckWinCondition
    \/ DayPhase
    \/ CliVote
    \/ TuiVote
    \/ EndGame
    \/ DecryptAllRoles

Spec == Init /\ [][Next]_vars

\* ------------------------------------------------------------------------
\* One call of collect_all_actions, over the answers the peers can give
\* ------------------------------------------------------------------------

\* how a peer's triplet reaches the collector: already in cached_results (a
\* triplet, or the JSON body of an HTTP error answer stored by
\* start_agent_voting), or requested now (answered, timed out, HTTP error)
AnswerKinds == {"cached", "cached_error", "fresh", "timeout", "http_error"}

CollectInit ==
    /\ KillIdle
    /\ GameIdle
    /\ DkgIdle
    /\ ShuffleIdle
    /\ FanoutIdle
    /\ HumanIdle
    /\ LoopIdle
    /\ RelayIdle
    /\ ChatIdle
    /\ c_pc = "peers"
    /\ c_i = 1
    /\ c_phase \in {"night", "vote"}
    /\ c_human_alive \in BOOLEAN
    /\ c_role \in RoleNames
    /\ c_human_target \in Targets
    /\ c_kinds = <<>>
    /\ c_cached_results = <<>>
    /\ c_responses = <<>>
    /\ c_lists = NoLists
    /\ c_investigated = {}
    /\ c_vote_counts = NoVector

\* peer c_i's answer is fixed: its entry of cached_results, or its response
PeerAnswers ==
    /\ c_pc = "peers"
    /\ c_i <= NumPlayers - 1
    /\ \E kind \in AnswerKinds, choice \in PeerTargets :
        LET data == TripletData(PeerTriplet(c_phase, c_role, TRUE, choice))
        IN /\ kind \notin {"cached", "fresh"} => choice = NoTarget
           /\ c_kinds' = c_kinds @@ (c_i :> kind)
           /\ c_cached_results' =
                  IF kind = "cached" THEN c_cached_results @@ (c_i :> data)
                  ELSE IF kind = "cached_error"
                  THEN c_cached_results @@ (c_i :> ErrorBody)
                  ELSE c_cached_results
           /\ c_responses' =
                  IF kind = "fresh"
                  THEN c_responses @@ (c_i :> [status |-> "ok", data |-> data])
                  ELSE IF kind = "timeout"
                  THEN c_responses @@ (c_i :> [status |-> "timeout", data |-> ErrorBody])
                  ELSE IF kind = "http_error"
                  THEN c_responses @@ (c_i :> [status |-> "error", data |-> ErrorBody])
                  ELSE c_responses
    /\ c_i' = c_i + 1
    /\ UNCHANGED <<c_pc, c_phase, c_human_alive, c_role, c_human_target, c_lists,
                   c_investigated, c_vote_counts>>
    /\ UNCHANGED <<killVars, gameVars, dkgVars, shuffleVars, fanoutVars,
                   humanVars, loopVars, relayVars, chatVars>>

\* ActionCollector.collect_all_actions returns or raises
Collect ==
    /\ c_pc = "peers"
    /\ c_i = NumPlayers
    /\ LET callback == get_human_action_callback(c_phase, c_role, c_human_target)
           lists == collect_all_actions(c_human_alive, c_phase, callback.vectors,
                                        c_cached_results, c_responses)
       IN /\ c_lists' = lists
          /\ c_investigated' = IF c_human_alive /\ c_phase \in {"night", "vote"}
                                THEN callback.investigated ELSE {}
          /\ c_pc' = IF lists.raised THEN "raised" ELSE "returned"
    /\ UNCHANGED <<c_i, c_phase, c_human_alive, c_role, c_human_target, c_kinds,
                   c_cached_results, c_responses, c_vote_counts>>
    /\ UNCHANGED <<killVars, gameVars, dkgVars, shuffleVars, fanoutVars,
                   humanVars, loopVars, relayVars, chatVars>>

\* execute_vote_phase, lines 157-165: the returned vote vectors are
\* aggregated and the sum is threshold-decrypted (every peer answers)
TallyVotes ==
    /\ c_pc = "returned"
    /\ c_phase = "vote"
    /\ c_vote_counts' = decrypt_vector(total_votes_enc(c_lists.vote), {}).plain
    /\ c_pc' = "tallied"
    /\ UNCHANGED <<c_i, c_phase, c_human_alive, c_role, c_human_target, c_kinds,
                   c_cached_results, c_responses, c_lists, c_investigated>>
    /\ UNCHANGED <<killVars, gameVars, dkgVars, shuffleVars, fanoutVars,
                   humanVars, loopVars, relayVars, chatVars>>

NextCollect ==
    \/ PeerAnswers
    \/ Collect
    \/ TallyVotes

SpecCollect == CollectInit /\ [][NextCollect]_vars

\* ------------------------------------------------------------------------
\* Session setup, one request at a time: DKGCoordinator.run_dkg_protocol and
\* assign_roles_blindly
\* ------------------------------------------------------------------------

\* DKGProtocol.initialize_lead_key: the lead's public key
initialize_lead_key == Key("pk", <<human_player_index>>, <<>>)

\* a peer's answer to POST /dkg_round: the key it was sent, extended by its
\* own share
PeerJoin(k, previous_public_key) ==
    Key("pk", Append(previous_public_key.of, k), <<>>)

\* a chain in which every join request carries the lead's key
JoinPayloadInitial(current_pk_b64, initial_pk_b64) == initial_pk_b64

\* chain_dkg_rounds: "previous_public_key" of the next join request
join_payload(current_pk_b64, initial_pk_b64) == current_pk_b64

\* DKGProtocol.generate_keyswitch_key
generate_keyswitch_key == Key("keyswitch", <<human_player_index>>, <<>>)

\* a peer's answer to POST /generate_keyswitchgen
PeerKeySwitch(k) == Key("keyswitch", <<k>>, <<>>)

\* the loops of combine_keyswitch_keys and finalize_mult_keys over keys[1:]
RECURSIVE AddKeys(_, _)
AddKeys(combined, keys) ==
    IF keys = <<>> THEN combined
    ELSE AddKeys(Key(combined.kind, combined.of \o Head(keys).of, combined.over),
                 Tail(keys))

\* DKGProtocol.combine_keyswitch_keys
combine_keyswitch_keys(keys) == AddKeys(Head(keys), Tail(keys))

\* DKGProtocol.generate_multmult_key
generate_multmult_key(combined_key) ==
    Key("multmult", <<human_player_index>>, combined_key.of)

\* a peer's answer to POST /generate_multmultkey
PeerMultMult(k, combined_key) == Key("multmult", <<k>>, combined_key.of)

\* DKGProtocol.finalize_mult_keys: the key inserted into the context
finalize_mult_keys(mult_keys) == AddKeys(Head(mult_keys), Tail(mult_keys))

\* a round-2 loop that leaves out the last peer
KeyswitchStopsEarly(i) == i \notin Agents \ {NumPlayers - 1}

\* the loops over enumerate(self.ai_addresses): i is the next player index
collect_keyswitch_keys_done(i) == i \notin Agents

collect_multmult_keys_done(i) == i \notin Agents

\* how the one unreliable peer answers a setup request: 200, an HTTP error
\* status, or no answer (timeout, connection error)
DkgAnswers(k) == IF k = NumPlayers - 1 THEN {"ok", "status", "exception"} ELSE {"ok"}

\* the unreliable peer may also answer POST /partial_decrypt with 200 and a
\* partial that does not fit the fusion (a decryption artifact, tampering)
PartialFaults(k) == IF k = NumPlayers - 1 THEN {"corrupt"} ELSE {}

\* the share in a peer's answer: its main share, or one the fusion cannot use
PartialAnswer(k, kind) == PeerPartialDecrypt(k, kind = "corrupt")

\* one request of the Coordinator
Request(to, path, body) == [to |-> to, path |-> path, body |-> body]

\* a partial decryption: the share and the ciphertext it is a share of
RolePartial(share, ciphertext_b64) ==
    [party |-> share.party, lead |-> share.lead,
     of |-> deserialize_ciphertext(ciphertext_b64).from]

SharesOf(partials) ==
    [j \in 1..Len(partials) |->
        [party |-> partials[j].party, lead |-> partials[j].lead]]

\* RoleAssigner.decrypt_own_role
decrypt_own_role(encrypted_role, partial_results) ==
    LET human_partial == RolePartial(partial_decrypt_lead(human_player_index),
                                     encrypted_role)
        all_partials == Append(partial_results, human_partial)
        decrypted_vector ==
            GetPackedValue(fusion_decrypt(deserialize_ciphertext(encrypted_role),
                                          SharesOf(all_partials)))
    IN one_hot_to_role(decrypted_vector)

\* a help loop that asks every agent, the role's owner included
HelpSourcesAll(agent_index) == Agents

\* help_agent_decrypt_role: the agents asked for a partial of the role of
\* agent_index (a player index here): every j != agent_index
help_partial_sources(agent_index) == {j \in Agents : j # agent_index}

Hold(held, p, partials) == [held EXCEPT ![p] = @ \cup partials]

\* DKGCoordinator() and DKGNetworkClient(ai_addresses)
SetupInit ==
    /\ KillIdle
    /\ GameIdle
    /\ CollectIdle
    /\ ShuffleIdle
    /\ FanoutIdle
    /\ HumanIdle
    /\ LoopIdle
    /\ RelayIdle
    /\ ChatIdle
    /\ d_pc = "broadcast_setup"
    /\ d_i = 0
    /\ d_agent = 0
    /\ d_setup_failed = {}
    /\ d_inflight = {}
    /\ d_current_pk = NoKey
    /\ d_responses = [k \in Agents |-> NoKey]
    /\ d_joint_public_key = NoKey
    /\ d_keys = <<>>
    /\ d_combined = NoKey
    /\ d_mults = <<>>
    /\ d_jmk = NoKey
    /\ d_log = <<>>
    /\ d_roles = <<>>
    /\ d_encrypted_roles = <<>>
    /\ d_partials = <<>>
    /\ d_human_role = "None"
    /\ d_held = [p \in Slots |-> {}]

\* a variant in which a request that failed is skipped and the loop goes on
MissingAnswerSkipped ==
    /\ d_i' = d_i + 1
    /\ UNCHANGED <<d_pc, d_agent, d_current_pk, d_responses, d_joint_public_key,
                   d_keys, d_combined, d_mults, d_jmk, d_roles,
                   d_encrypted_roles, d_partials, d_human_role, d_held>>

DkgAbort ==
    /\ d_pc' = "aborted"
    /\ UNCHANGED <<d_i, d_agent, d_current_pk, d_responses, d_joint_public_key,
                   d_keys, d_combined, d_mults, d_jmk, d_roles,
                   d_encrypted_roles, d_partials, d_human_role, d_held>>

\* broadcast_setup: POST /dkg_setup to every agent at once, failures ignored;
\* then initialize_lead_key
BroadcastSetup ==
    /\ d_pc = "broadcast_setup"
    /\ \E failed \in {{}, {NumPlayers - 1}} : d_setup_failed' = failed
    /\ d_log' = d_log \o [k \in Agents |->
                             Request(k, "dkg_setup", [player_index |-> k])]
    /\ d_current_pk' = initialize_lead_key
    /\ d_i' = 1
    /\ d_pc' = "chain_send"
    /\ UNCHANGED <<d_agent, d_inflight, d_responses, d_joint_public_key, d_keys,
                   d_combined, d_mults, d_jmk, d_roles, d_encrypted_roles,
                   d_partials, d_human_role, d_held>>
    /\ UNCHANGED <<killVars, gameVars, collectVars, shuffleVars, fanoutVars,
                   humanVars, loopVars, relayVars, chatVars>>

\* chain_dkg_rounds: client.post(/dkg_round) to the next agent
JoinSend ==
    /\ d_pc = "chain_send"
    /\ d_i \in Agents
    /\ d_log' = Append(d_log, Request(d_i, "dkg_round",
                                      join_payload(d_current_pk, initialize_lead_key)))
    /\ d_inflight' = d_inflight \cup {d_i}
    /\ d_pc' = "chain_wait"
    /\ UNCHANGED <<d_i, d_agent, d_setup_failed, d_current_pk, d_responses,
                   d_joint_public_key, d_keys, d_combined, d_mults, d_jmk,
                   d_roles, d_encrypted_roles, d_partials, d_human_role, d_held>>
    /\ UNCHANGED <<killVars, gameVars, collectVars, shuffleVars, fanoutVars,
                   humanVars, loopVars, relayVars, chatVars>>

\* chain_dkg_rounds: the awaited response, raise_for_status, and
\* current_pk_b64 = response.json()["public_key"]
JoinRecv ==
    /\ d_pc = "chain_wait"
    /\ d_inflight' = d_inflight \ {d_i}
    /\ \E kind \in DkgAnswers(d_i) :
        IF kind = "ok"
        THEN LET public_key == PeerJoin(d_i, d_log[Len(d_log)].body)
             IN /\ d_responses' = [d_responses EXCEPT ![d_i] = public_key]
                /\ d_current_pk' = public_key
                /\ d_i' = d_i + 1
                /\ d_pc' = "chain_send"
                /\ UNCHANGED <<d_agent, d_joint_public_key, d_keys, d_combined,
                               d_mults, d_jmk, d_roles, d_encrypted_roles,
                               d_partials, d_human_role, d_held>>
        ELSE DkgAbort
    /\ UNCHANGED <<d_setup_failed, d_log>>
    /\ UNCHANGED <<killVars, gameVars, collectVars, shuffleVars, fanoutVars,
                   humanVars, loopVars, relayVars, chatVars>>

\* chain_dkg_rounds returns; run_dkg_protocol: finalize_joint_key
ChainDone ==
    /\ d_pc = "chain_send"
    /\ d_i \notin Agents
    /\ d_joint_public_key' = d_current_pk
    /\ d_i' = 1
    /\ d_pc' = "keyswitch"
    /\ UNCHANGED <<d_agent, d_setup_failed, d_inflight, d_current_pk, d_responses,
                   d_keys, d_combined, d_mults, d_jmk, d_log, d_roles,
                   d_encrypted_roles, d_partials, d_human_role, d_held>>
    /\ UNCHANGED <<killVars, gameVars, collectVars, shuffleVars, fanoutVars,
                   humanVars, loopVars, relayVars, chatVars>>

\* collect_keyswitch_keys: one iteration, request and response
KeyswitchStep ==
    /\ d_pc = "keyswitch"
    /\ ~collect_keyswitch_keys_done(d_i)
    /\ d_log' = Append(d_log, Request(d_i, "generate_keyswitchgen",
                                      generate_keyswitch_key))
    /\ \E kind \in DkgAnswers(d_i) :
        IF kind = "ok"
        THEN /\ d_keys' = Append(d_keys, PeerKeySwitch(d_i))
             /\ d_i' = d_i + 1
             /\ UNCHANGED <<d_pc, d_agent, d_current_pk, d_responses,
                            d_joint_public_key, d_combined, d_mults, d_jmk,
                            d_roles, d_encrypted_roles, d_partials, d_human_role,
                            d_held>>
        ELSE DkgAbort
    /\ UNCHANGED <<d_setup_failed, d_inflight>>
    /\ UNCHANGED <<killVars, gameVars, collectVars, shuffleVars, fanoutVars,
                   humanVars, loopVars, relayVars, chatVars>>

\* run_dkg_protocol, lines 67-77: combine_keyswitch_keys over the human's
\* key and the agents' keys
KeyswitchDone ==
    /\ d_pc = "keyswitch"
    /\ collect_keyswitch_keys_done(d_i)
    /\ d_combined' = combine_keyswitch_keys(<<generate_keyswitch_key>> \o d_keys)
    /\ d_i' = 1
    /\ d_pc' = "multmult"
    /\ UNCHANGED <<d_agent, d_setup_failed, d_inflight, d_current_pk, d_responses,
                   d_joint_public_key, d_keys, d_mults, d_jmk, d_log, d_roles,
                   d_encrypted_roles, d_partials, d_human_role, d_held>>
    /\ UNCHANGED <<killVars, gameVars, collectVars, shuffleVars, fanoutVars,
                   humanVars, loopVars, relayVars, chatVars>>

\* collect_multmult_keys: one iteration, request and response
MultmultStep ==
    /\ d_pc = "multmult"
    /\ ~collect_multmult_keys_done(d_i)
    /\ d_log' = Append(d_log, Request(d_i, "generate_multmultkey", d_combined))
    /\ \E kind \in DkgAnswers(d_i) :
        IF kind = "ok"
        THEN /\ d_mults' = Append(d_mults, PeerMultMult(d_i, d_combined))
             /\ d_i' = d_i + 1
             /\ UNCHANGED <<d_pc, d_agent, d_current_pk, d_responses,
                            d_joint_public_key, d_keys, d_combined, d_jmk,
                            d_roles, d_encrypted_roles, d_partials, d_human_role,
                            d_held>>
        ELSE DkgAbort
    /\ UNCHANGED <<d_setup_failed, d_inflight>>
    /\ UNCHANGED <<killVars, gameVars, collectVars, shuffleVars, fanoutVars,
                   humanVars, loopVars, relayVars, chatVars>>

\* run_dkg_protocol, lines 85-98: finalize_mult_keys, then the return
MultmultDone ==
    /\ d_pc = "multmult"
    /\ collect_multmult_keys_done(d_i)
    /\ d_jmk' = finalize_mult_keys(<<generate_multmult_key(d_combined)>> \o d_mults)
    /\ d_pc' = "ready"
    /\ UNCHANGED <<d_i, d_agent, d_setup_failed, d_inflight, d_current_pk,
                   d_responses, d_joint_public_key, d_keys, d_combined, d_mults,
                   d_log, d_roles, d_encrypted_roles, d_partials, d_human_role,
                   d_held>>
    /\ UNCHANGED <<killVars, gameVars, collectVars, shuffleVars, fanoutVars,
                   humanVars, loopVars, relayVars, chatVars>>

\* assign_roles_blindly, lines 116-122: generate_encrypted_roles
GenerateRoles ==
    /\ d_pc = "ready"
    /\ \E shuffled \in Shuffles(NumPlayers) :
        /\ d_roles' = shuffled
        /\ d_encrypted_roles' = generate_encrypted_roles(shuffled)
    /\ d_i' = 1
    /\ d_partials' = <<>>
    /\ d_pc' = "own_role"
    /\ UNCHANGED <<d_agent, d_setup_failed, d_inflight, d_current_pk, d_responses,
                   d_joint_public_key, d_keys, d_combined, d_mults, d_jmk, d_log,
                   d_human_role, d_held>>
    /\ UNCHANGED <<killVars, gameVars, collectVars, shuffleVars, fanoutVars,
                   humanVars, loopVars, relayVars, chatVars>>

\* DKGNetworkClient.collect_partial_decryptions(encrypted_roles[0]): one
\* iteration, request and response
OwnRoleStep ==
    /\ d_pc = "own_role"
    /\ d_i \in Agents
    /\ LET ciphertext_b64 == d_encrypted_roles[human_player_index]
       IN /\ d_log' = Append(d_log, Request(d_i, "partial_decrypt",
                                 [ciphertext |-> ciphertext_b64, is_lead |-> FALSE]))
          /\ \E kind \in DkgAnswers(d_i) \cup PartialFaults(d_i) :
              IF kind \in {"ok", "corrupt"}
              THEN LET partial == RolePartial(PartialAnswer(d_i, kind), ciphertext_b64)
                   IN
                   /\ d_partials' = Append(d_partials, partial)
                   /\ d_held' = Hold(Hold(d_held, d_i, {partial}),
                                     human_player_index, {partial})
                   /\ d_i' = d_i + 1
                   /\ UNCHANGED <<d_pc, d_agent, d_current_pk, d_responses,
                                  d_joint_public_key, d_keys, d_combined, d_mults,
                                  d_jmk, d_roles, d_encrypted_roles, d_human_role>>
              ELSE DkgAbort
    /\ UNCHANGED <<d_setup_failed, d_inflight>>
    /\ UNCHANGED <<killVars, gameVars, collectVars, shuffleVars, fanoutVars,
                   humanVars, loopVars, relayVars, chatVars>>

\* assign_roles_blindly, lines 130-140: decrypt_own_role
OwnRoleDone ==
    /\ d_pc = "own_role"
    /\ d_i \notin Agents
    /\ LET encrypted_role == d_encrypted_roles[human_player_index]
       IN /\ d_human_role' = decrypt_own_role(encrypted_role, d_partials)
          /\ d_held' = Hold(d_held, human_player_index,
                            {RolePartial(partial_decrypt_lead(human_player_index),
                                         encrypted_role)})
    /\ d_partials' = <<>>
    /\ d_i' = 1
    /\ d_pc' = "distribute"
    /\ UNCHANGED <<d_agent, d_setup_failed, d_inflight, d_current_pk, d_responses,
                   d_joint_public_key, d_keys, d_combined, d_mults, d_jmk, d_log,
                   d_roles, d_encrypted_roles>>
    /\ UNCHANGED <<killVars, gameVars, collectVars, shuffleVars, fanoutVars,
                   humanVars, loopVars, relayVars, chatVars>>

\* distribute_encrypted_roles: one iteration; the status of the answer is
\* not looked at
DistributeStep ==
    /\ d_pc = "distribute"
    /\ d_i \in Agents
    /\ d_log' = Append(d_log, Request(d_i, "blind_role_assignment",
                          [my_index |-> d_i, encrypted_roles |-> d_encrypted_roles,
                           joint_public_key |-> d_joint_public_key]))
    /\ \E kind \in DkgAnswers(d_i) :
        IF kind = "exception"
        THEN DkgAbort
        ELSE /\ d_i' = d_i + 1
             /\ UNCHANGED <<d_pc, d_agent, d_current_pk, d_responses,
                            d_joint_public_key, d_keys, d_combined, d_mults, d_jmk,
                            d_roles, d_encrypted_roles, d_partials, d_human_role,
                            d_held>>
    /\ UNCHANGED <<d_setup_failed, d_inflight>>
    /\ UNCHANGED <<killVars, gameVars, collectVars, shuffleVars, fanoutVars,
                   humanVars, loopVars, relayVars, chatVars>>

\* assign_roles_blindly, lines 153-165, and the first line of
\* help_agent_decrypt_role: partials = [human_partial]
StartHelp(agent) ==
    LET human_partial == RolePartial(partial_decrypt_lead(human_player_index),
                                     d_encrypted_roles[agent])
    IN /\ d_agent' = agent
       /\ d_i' = 1
       /\ d_partials' = <<human_partial>>
       /\ d_pc' = "help"

DistributeDone ==
    /\ d_pc = "distribute"
    /\ d_i \notin Agents
    /\ StartHelp(1)
    /\ d_held' = Hold(d_held, human_player_index, {d_partials'[1]})
    /\ UNCHANGED <<d_setup_failed, d_inflight, d_current_pk, d_responses,
                   d_joint_public_key, d_keys, d_combined, d_mults, d_jmk, d_log,
                   d_roles, d_encrypted_roles, d_human_role>>
    /\ UNCHANGED <<killVars, gameVars, collectVars, shuffleVars, fanoutVars,
                   humanVars, loopVars, relayVars, chatVars>>

\* help_agent_decrypt_role: one iteration of the loop over the agents
HelpStep ==
    /\ d_pc = "help"
    /\ d_i \in Agents
    /\ IF d_i \in help_partial_sources(d_agent)
       THEN LET ciphertext_b64 == d_encrypted_roles[d_agent]
                partial == RolePartial(PeerPartialDecrypt(d_i, FALSE), ciphertext_b64)
            IN /\ d_log' = Append(d_log, Request(d_i, "partial_decrypt",
                                 [ciphertext |-> ciphertext_b64, is_lead |-> FALSE]))
               /\ \E kind \in DkgAnswers(d_i) :
                   IF kind = "ok"
                   THEN /\ d_partials' = Append(d_partials, partial)
                        /\ d_held' = Hold(Hold(d_held, d_i, {partial}),
                                          human_player_index, {partial})
                        /\ d_i' = d_i + 1
                        /\ UNCHANGED <<d_pc, d_agent, d_current_pk, d_responses,
                                       d_joint_public_key, d_keys, d_combined,
                                       d_mults, d_jmk, d_roles, d_encrypted_roles,
                                       d_human_role>>
                   ELSE DkgAbort
       ELSE /\ d_i' = d_i + 1
            /\ UNCHANGED <<d_pc, d_agent, d_current_pk, d_responses,
                           d_joint_public_key, d_keys, d_combined, d_mults, d_jmk,
                           d_log, d_roles, d_encrypted_roles, d_partials,
                           d_human_role, d_held>>
    /\ UNCHANGED <<d_setup_failed, d_inflight>>
    /\ UNCHANGED <<killVars, gameVars, collectVars, shuffleVars, fanoutVars,
                   humanVars, loopVars, relayVars, chatVars>>

\* help_agent_decrypt_role: POST /complete_role_decryption to the agent (the
\* status of the answer is not looked at), then the next agent.  The agent
\* that receives the partials adds its own partial of its ciphertext.
HelpForward ==
    /\ d_pc = "help"
    /\ d_i \notin Agents
    /\ d_log' = Append(d_log, Request(d_agent, "complete_role_decryption",
                                      [partial_ciphertexts |-> d_partials]))
    /\ \E kind \in DkgAnswers(d_agent) :
        IF kind = "exception"
        THEN DkgAbort
        ELSE LET own == RolePartial(PeerPartialDecrypt(d_agent, FALSE),
                                    d_encrypted_roles[d_agent])
                 received == Hold(d_held, d_agent, Range(d_partials) \cup {own})
             IN /\ IF d_agent + 1 \in Agents
                   THEN /\ StartHelp(d_agent + 1)
                        /\ d_held' = Hold(received, human_player_index,
                                          {d_partials'[1]})
                   ELSE /\ d_pc' = "assigned"
                        /\ d_held' = received
                        /\ UNCHANGED <<d_i, d_agent, d_partials>>
                /\ UNCHANGED <<d_current_pk, d_responses, d_joint_public_key,
                               d_keys, d_combined, d_mults, d_jmk, d_roles,
                               d_encrypted_roles, d_human_role>>
    /\ UNCHANGED <<d_setup_failed, d_inflight>>
    /\ UNCHANGED <<killVars, gameVars, collectVars, shuffleVars, fanoutVars,
                   humanVars, loopVars, relayVars, chatVars>>

NextSetup ==
    \/ BroadcastSetup
    \/ JoinSend
    \/ JoinRecv
    \/ ChainDone
    \/ KeyswitchStep
    \/ KeyswitchDone
    \/ MultmultStep
    \/ MultmultDone
    \/ GenerateRoles
    \/ OwnRoleStep
    \/ OwnRoleDone
    \/ DistributeStep
    \/ DistributeDone
    \/ HelpStep
    \/ HelpForward

SpecSetup == SetupInit /\ [][NextSetup]_vars

\* ------------------------------------------------------------------------
\* The role list of generate_encrypted_roles, for every table row
\* ------------------------------------------------------------------------

\* the keys of a row of role_distribution, in the order of the dict literal
role_dist_items == <<"mafia", "doctor", "police", "citizen">>

\* roles.extend([role] * count)
extend(list, role, count) ==
    LET length == Cardinality(DOMAIN list)
    IN [k \in 0..(length + count - 1) |-> IF k < length THEN list[k] ELSE role]

\* an exchange that loses x[i]
SwapOverwrites(x, i, j) == [x EXCEPT ![i] = x[j]]

\* random.shuffle: x[i], x[j] = x[j], x[i]
swap(x, i, j) == [x EXCEPT ![i] = x[j], ![j] = x[i]]

\* generate_encrypted_roles(num_players): roles = []
ShuffleInit ==
    /\ KillIdle
    /\ GameIdle
    /\ CollectIdle
    /\ DkgIdle
    /\ FanoutIdle
    /\ HumanIdle
    /\ LoopIdle
    /\ RelayIdle
    /\ ChatIdle
    /\ s_pc = "extend"
    /\ s_num_players \in MinPlayers..MaxPlayers
    /\ s_roles = <<>>
    /\ s_i = 1

\* one iteration of the loop over role_dist.items(); after the last one
\* random.shuffle starts at the last position
ExtendRoles ==
    /\ s_pc = "extend"
    /\ LET role == role_dist_items[s_i]
           count == role_distribution(s_num_players)[role]
       IN s_roles' = extend(s_roles, role, count)
    /\ IF s_i < Len(role_dist_items)
       THEN /\ s_i' = s_i + 1
            /\ s_pc' = "extend"
       ELSE /\ s_i' = Cardinality(DOMAIN s_roles') - 1
            /\ s_pc' = "shuffle"
    /\ UNCHANGED s_num_players
    /\ UNCHANGED <<killVars, gameVars, collectVars, dkgVars, fanoutVars,
                   humanVars, loopVars, relayVars, chatVars>>

\* random.shuffle: for i in reversed(range(1, len(x))), j = randbelow(i + 1)
ShuffleStep ==
    /\ s_pc = "shuffle"
    /\ s_i >= 1
    /\ \E j \in 0..s_i : s_roles' = swap(s_roles, s_i, j)
    /\ s_i' = s_i - 1
    /\ UNCHANGED <<s_pc, s_num_players>>
    /\ UNCHANGED <<killVars, gameVars, collectVars, dkgVars, fanoutVars,
                   humanVars, loopVars, relayVars, chatVars>>

\* the shuffled list is the one that is encrypted, entry by entry
ShuffleDone ==
    /\ s_pc = "shuffle"
    /\ s_i < 1
    /\ s_pc' = "done"
    /\ UNCHANGED <<s_num_players, s_roles, s_i>>
    /\ UNCHANGED <<killVars, gameVars, collectVars, dkgVars, fanoutVars,
                   humanVars, loopVars, relayVars, chatVars>>

NextShuffle ==
    \/ ExtendRoles
    \/ ShuffleStep
    \/ ShuffleDone

SpecShuffle == ShuffleInit /\ [][NextShuffle]_vars

\* ------------------------------------------------------------------------
\* One call of parallel_decrypt (the fan-out decryption of a role ciphertext)
\* ------------------------------------------------------------------------

\* the arguments: the role ciphertext of some player, and the requester
FanoutInit ==
    \E role \in RoleNames, target \in Slots, requester \in Slots :
        /\ KillIdle
        /\ GameIdle
        /\ CollectIdle
        /\ DkgIdle
        /\ ShuffleIdle
        /\ HumanIdle
        /\ LoopIdle
        /\ RelayIdle
        /\ ChatIdle
        /\ f_pc = "call"
        /\ f_ciphertext_b64 =
               generate_encrypted_roles([i \in Slots |-> role])[target]
        /\ f_requester_index = requester
        /\ f_answers = [i \in Slots |-> "none"]
        /\ f_result = NoResult

\* asyncio.gather(*tasks, return_exceptions=True): every other player answers
ParallelGather ==
    /\ f_pc = "call"
    /\ \E answers \in [Slots -> InvestigationAnswers] :
           f_answers' = [i \in Slots |-> IF i = f_requester_index
                                         THEN "none" ELSE answers[i]]
    /\ f_pc' = "gathered"
    /\ UNCHANGED <<f_ciphertext_b64, f_requester_index, f_result>>
    /\ UNCHANGED <<killVars, gameVars, collectVars, dkgVars, shuffleVars,
                   humanVars, loopVars, relayVars, chatVars>>

\* the loop over the answers, fusion_decrypt and the return
ParallelFuse ==
    /\ f_pc = "gathered"
    /\ f_result' = parallel_decrypt(f_ciphertext_b64, f_requester_index, f_answers)
    /\ f_pc' = "returned"
    /\ UNCHANGED <<f_ciphertext_b64, f_requester_index, f_answers>>
    /\ UNCHANGED <<killVars, gameVars, collectVars, dkgVars, shuffleVars,
                   humanVars, loopVars, relayVars, chatVars>>

NextFanout ==
    \/ ParallelGather
    \/ ParallelFuse

SpecFanout == FanoutInit /\ [][NextFanout]_vars

\* ------------------------------------------------------------------------
\* One call of get_human_action, for a live human
\* ------------------------------------------------------------------------

\* what can be typed at the prompt or handed over as pending_human_action:
\* the skip value, a player index, an index past the last player
Submittable == (-1)..NumPlayers

\* the arguments and the engine's fields when the callback is called
HumanInit ==
    /\ KillIdle
    /\ GameIdle
    /\ CollectIdle
    /\ DkgIdle
    /\ ShuffleIdle
    /\ FanoutIdle
    /\ LoopIdle
    /\ RelayIdle
    /\ ChatIdle
    /\ h_pc = "call"
    /\ h_phase \in {"night", "vote"}
    /\ h_role \in RoleNames
    /\ h_alive \in {a \in [Slots -> BOOLEAN] :
                       a[human_player_index] /\ \E i \in Agents : a[i]}
    /\ h_ready \in BOOLEAN
    /\ h_pending \in IF h_ready THEN Submittable ELSE {None}
    /\ h_submitted = {}
    /\ h_rejected = {}
    /\ h_vectors = <<>>

\* lines 284-295: the action the TUI has stored is used as it is
HumanActionFromTui ==
    /\ h_pc = "call"
    /\ h_ready
    /\ h_vectors' = get_human_action(h_phase, {i \in Slots : h_alive[i]}, h_role,
                                     TRUE, h_pending, -1)
    /\ h_submitted' = {IF h_pending # None THEN h_pending ELSE -1}
    /\ h_ready' = FALSE
    /\ h_pending' = None
    /\ h_pc' = "returned"
    /\ UNCHANGED <<h_phase, h_role, h_alive, h_rejected>>
    /\ UNCHANGED <<killVars, gameVars, collectVars, dkgVars, shuffleVars,
                   fanoutVars, loopVars, relayVars, chatVars>>

\* lines 297-354: no action for this role, or one round of the prompt loop:
\* the line typed is -1, a valid target, or refused with "Invalid target"
HumanPrompt ==
    /\ h_pc \in {"call", "prompt"}
    /\ ~h_ready
    /\ LET survivors == {i \in Slots : h_alive[i]}
       IN IF ~CanAct(h_phase, h_role)
          THEN /\ h_vectors' = get_human_action(h_phase, survivors, h_role,
                                                FALSE, None, -1)
               /\ h_pc' = "returned"
               /\ UNCHANGED <<h_submitted, h_rejected>>
          ELSE \E target \in Submittable :
                /\ h_submitted' = h_submitted \cup {target}
                /\ IF CliAccepts(survivors, target)
                   THEN /\ h_vectors' = get_human_action(h_phase, survivors,
                                             h_role, FALSE, None, target)
                        /\ h_pc' = "returned"
                        /\ UNCHANGED h_rejected
                   ELSE /\ h_rejected' = h_rejected \cup {target}
                        /\ h_pc' = "prompt"
                        /\ UNCHANGED h_vectors
    /\ UNCHANGED <<h_phase, h_role, h_alive, h_ready, h_pending>>
    /\ UNCHANGED <<killVars, gameVars, collectVars, dkgVars, shuffleVars,
                   fanoutVars, loopVars, relayVars, chatVars>>

NextHuman ==
    \/ HumanActionFromTui
    \/ HumanPrompt

SpecHuman == HumanInit /\ [][NextHuman]_vars

\* ------------------------------------------------------------------------
\* The event loop during one call of collect_all_actions
\* ------------------------------------------------------------------------

\* the tasks of the loop: the coroutine that called collect_all_actions,
\* ai_task, and the request task of peer k (named k)
MainTask == NumPlayers + 1
AiTask == NumPlayers

\* the peers that collect_agent_actions creates a request task for, in the
\* order of ai_players
Uncached == {k \in Agents : k \notin e_cached}

\* the request tasks in the order create_task was called for them
RECURSIVE TasksInOrder(_, _)
TasksInOrder(k, cached) ==
    IF k >= NumPlayers THEN <<>>
    ELSE (IF k \in cached THEN <<>> ELSE <<k>>) \o TasksInOrder(k + 1, cached)

\* the request tasks that have run up to their post: the request has been
\* handed to the network
Begun == {k \in Agents : e_child[k] \in {"posted", "answered", "done"}}

\* collect_all_actions is called in a night or vote phase; the calling
\* coroutine is the one running
LoopInit ==
    /\ KillIdle
    /\ GameIdle
    /\ CollectIdle
    /\ DkgIdle
    /\ ShuffleIdle
    /\ FanoutIdle
    /\ HumanIdle
    /\ RelayIdle
    /\ ChatIdle
    /\ e_pc = "call"
    /\ e_ai = "none"
    /\ e_child = [k \in Agents |-> "none"]
    /\ e_ready = <<>>
    /\ e_cached \in SUBSET Agents
    /\ e_human_alive \in BOOLEAN
    /\ e_begun_at_human = {}

\* lines 46-60: create_task puts ai_task on the ready queue; sleep(0) puts
\* the caller behind it
CreateTaskAndYield ==
    /\ e_pc = "call"
    /\ e_ai' = "scheduled"
    /\ e_ready' = <<AiTask, MainTask>>
    /\ e_pc' = "yielded"
    /\ UNCHANGED <<e_child, e_cached, e_human_alive, e_begun_at_human>>
    /\ UNCHANGED <<killVars, gameVars, collectVars, dkgVars, shuffleVars,
                   fanoutVars, humanVars, relayVars, chatVars>>

\* collect_agent_actions up to its gather: a request task is created for
\* every peer without a cached result and put on the ready queue; with no
\* task to wait for the coroutine returns at once
AiTaskCreatesRequests ==
    /\ e_ready # <<>>
    /\ Head(e_ready) = AiTask
    /\ e_ai = "scheduled"
    /\ e_child' = [k \in Agents |-> IF k \in e_cached THEN "cached"
                                    ELSE "scheduled"]
    /\ e_ai' = IF Uncached = {} THEN "done" ELSE "gathering"
    /\ e_ready' = Tail(e_ready) \o TasksInOrder(1, e_cached)
    /\ UNCHANGED <<e_pc, e_cached, e_human_alive, e_begun_at_human>>
    /\ UNCHANGED <<killVars, gameVars, collectVars, dkgVars, shuffleVars,
                   fanoutVars, humanVars, relayVars, chatVars>>

\* lines 61-82: the caller resumes after sleep(0), obtains the human's
\* action if the human is alive (no other task runs meanwhile: the TUI's
\* stored action is returned without a wait, the prompt blocks the loop),
\* then waits for ai_task
MainObtainsHumanAction ==
    /\ e_ready # <<>>
    /\ Head(e_ready) = MainTask
    /\ e_pc = "yielded"
    /\ e_begun_at_human' = IF e_human_alive THEN Begun ELSE {}
    /\ IF e_ai = "done"
       THEN /\ e_pc' = "returned"
       ELSE /\ e_pc' = "await_ai_task"
    /\ e_ready' = Tail(e_ready)
    /\ UNCHANGED <<e_ai, e_child, e_cached, e_human_alive>>
    /\ UNCHANGED <<killVars, gameVars, collectVars, dkgVars, shuffleVars,
                   fanoutVars, humanVars, relayVars, chatVars>>

\* request_agent_action up to its post: the request is handed to the network
RequestPosts(k) ==
    /\ e_ready # <<>>
    /\ Head(e_ready) = k
    /\ e_child[k] = "scheduled"
    /\ e_child' = [e_child EXCEPT ![k] = "posted"]
    /\ e_ready' = Tail(e_ready)
    /\ UNCHANGED <<e_pc, e_ai, e_cached, e_human_alive, e_begun_at_human>>
    /\ UNCHANGED <<killVars, gameVars, collectVars, dkgVars, shuffleVars,
                   fanoutVars, humanVars, relayVars, chatVars>>

\* the peer's response (or the failure of the request) arrives: the request
\* task is ready again
ResponseArrives(k) ==
    /\ e_child[k] = "posted"
    /\ e_child' = [e_child EXCEPT ![k] = "answered"]
    /\ e_ready' = Append(e_ready, k)
    /\ UNCHANGED <<e_pc, e_ai, e_cached, e_human_alive, e_begun_at_human>>
    /\ UNCHANGED <<killVars, gameVars, collectVars, dkgVars, shuffleVars,
                   fanoutVars, humanVars, relayVars, chatVars>>

\* request_agent_action after its post: the task finishes; the last one to
\* finish makes gather's waiter, ai_task, ready
RequestFinishes(k) ==
    /\ e_ready # <<>>
    /\ Head(e_ready) = k
    /\ e_child[k] = "answered"
    /\ e_child' = [e_child EXCEPT ![k] = "done"]
    /\ e_ready' = IF \A j \in Uncached \ {k} : e_child[j] = "done"
                  THEN Append(Tail(e_ready), AiTask)
                  ELSE Tail(e_ready)
    /\ UNCHANGED <<e_pc, e_ai, e_cached, e_human_alive, e_begun_at_human>>
    /\ UNCHANGED <<killVars, gameVars, collectVars, dkgVars, shuffleVars,
                   fanoutVars, humanVars, relayVars, chatVars>>

\* collect_agent_actions after its gather: the results are matched and
\* returned; the caller waiting for ai_task is ready
AiTaskReturns ==
    /\ e_ready # <<>>
    /\ Head(e_ready) = AiTask
    /\ e_ai = "gathering"
    /\ e_ai' = "done"
    /\ e_ready' = IF e_pc = "await_ai_task"
                  THEN Append(Tail(e_ready), MainTask)
                  ELSE Tail(e_ready)
    /\ UNCHANGED <<e_pc, e_child, e_cached, e_human_alive, e_begun_at_human>>
    /\ UNCHANGED <<killVars, gameVars, collectVars, dkgVars, shuffleVars,
                   fanoutVars, humanVars, relayVars, chatVars>>

\* lines 82-108: the caller has the agents' results and returns
MainReturns ==
    /\ e_ready # <<>>
    /\ Head(e_ready) = MainTask
    /\ e_pc = "await_ai_task"
    /\ e_pc' = "returned"
    /\ e_ready' = Tail(e_ready)
    /\ UNCHANGED <<e_ai, e_child, e_cached, e_human_alive, e_begun_at_human>>
    /\ UNCHANGED <<killVars, gameVars, collectVars, dkgVars, shuffleVars,
                   fanoutVars, humanVars, relayVars, chatVars>>

NextLoop ==
    \/ CreateTaskAndYield
    \/ AiTaskCreatesRequests
    \/ MainObtainsHumanAction
    \/ \E k \in Agents : RequestPosts(k)
    \/ \E k \in Agents : ResponseArrives(k)
    \/ \E k \in Agents : RequestFinishes(k)
    \/ AiTaskReturns
    \/ MainReturns

SpecLoop == LoopInit /\ [][NextLoop]_vars

\* ------------------------------------------------------------------------
\* One decryption on behalf of a requester: the Coordinator's relay_decrypt,
\* or a peer's relay or fan-out that the Coordinator's HTTP server takes
\* part in
\* ------------------------------------------------------------------------

\* the players other than i, in index order, from index k on
RECURSIVE OthersFrom(_, _)
OthersFrom(k, i) ==
    IF k >= NumPlayers THEN <<>>
    ELSE (IF k = i THEN <<>> ELSE <<k>>) \o OthersFrom(k + 1, i)

\* the same list with its last player left out
PlayerOrderWithoutLast(requester_index) ==
    SubSeq(OthersFrom(0, requester_index), 1, NumPlayers - 2)

\* relay_decrypt line 87: every player but the requester, in index order
player_order(requester_index) == OthersFrom(0, requester_index)

\* the orders a peer may choose for the other parties
Orders(requester) ==
    {o \in [1..(NumPlayers - 1) -> Slots \ {requester}] :
        \A a, b \in 1..(NumPlayers - 1) : a # b => o[a] # o[b]}

\* the kinds of decryption: the Coordinator's relay_decrypt, a peer's relay,
\* a peer's fan-out
RelayKinds == {"relay_decrypt", "peer_relay", "peer_parallel"}

\* the ciphertext is the role ciphertext of some player; the Coordinator is
\* the requester of its own relay_decrypt, a peer of the other two kinds
RelayInit ==
    \E role \in RoleNames :
        /\ KillIdle
        /\ GameIdle
        /\ CollectIdle
        /\ DkgIdle
        /\ ShuffleIdle
        /\ FanoutIdle
        /\ HumanIdle
        /\ LoopIdle
        /\ ChatIdle
        /\ r_pc = "call"
        /\ r_kind \in RelayKinds
        /\ r_requester \in IF r_kind = "relay_decrypt" THEN {human_player_index}
                           ELSE Agents
        /\ r_ciphertext_b64 =
               generate_encrypted_roles([i \in Slots |-> role])[r_requester]
        /\ r_at = None
        /\ r_remaining = <<>>
        /\ r_partials = <<>>
        /\ r_visited = <<>>
        /\ r_result = NoVector

\* the request moves on: to the next player of remaining_order, or back to
\* whoever sent the first request when remaining_order is empty
Forward(partials) ==
    /\ r_partials' = partials
    /\ r_visited' = Append(r_visited, r_at)
    /\ IF r_remaining = <<>>
       THEN /\ r_pc' = "back"
            /\ r_at' = None
            /\ UNCHANGED r_remaining
       ELSE /\ r_at' = Head(r_remaining)
            /\ r_remaining' = Tail(r_remaining)
            /\ UNCHANGED r_pc
    /\ UNCHANGED <<r_kind, r_requester, r_ciphertext_b64, r_result>>
    /\ UNCHANGED <<killVars, gameVars, collectVars, dkgVars, shuffleVars,
                   fanoutVars, humanVars, loopVars, chatVars>>

\* relay_decrypt lines 86-105: the first player of player_order gets the
\* request, the requester is put last in remaining_order
RelayDecryptCall ==
    /\ r_pc = "call"
    /\ r_kind = "relay_decrypt"
    /\ LET order == player_order(r_requester)
           remaining_order == Tail(order) \o <<r_requester>>
       IN /\ r_at' = Head(order)
          /\ r_remaining' = remaining_order
    /\ r_pc' = "relay"
    /\ UNCHANGED <<r_kind, r_requester, r_ciphertext_b64, r_partials, r_visited,
                   r_result>>
    /\ UNCHANGED <<killVars, gameVars, collectVars, dkgVars, shuffleVars,
                   fanoutVars, humanVars, loopVars, chatVars>>

\* a peer starts a relay or a fan-out over the other parties in an order of
\* its choice
PeerRequest ==
    /\ r_pc = "call"
    /\ r_kind \in {"peer_relay", "peer_parallel"}
    /\ \E order \in Orders(r_requester) :
          /\ r_at' = Head(order)
          /\ r_remaining' = Tail(order)
    /\ r_pc' = IF r_kind = "peer_relay" THEN "relay" ELSE "parallel"
    /\ UNCHANGED <<r_kind, r_requester, r_ciphertext_b64, r_partials, r_visited,
                   r_result>>
    /\ UNCHANGED <<killVars, gameVars, collectVars, dkgVars, shuffleVars,
                   fanoutVars, humanVars, loopVars, chatVars>>

\* POST /relay_decrypt on the Coordinator's server: its partial is appended,
\* the list is returned when remaining_order is empty and forwarded to
\* remaining_order[0] with remaining_order[1:] otherwise
ServeRelayDecrypt ==
    /\ r_pc = "relay"
    /\ r_at = human_player_index
    /\ LET partial == partial_decrypt_lead(human_player_index)
       IN Forward(Append(r_partials, partial))

\* POST /investigate_parallel on the Coordinator's server
ServeInvestigateParallel ==
    /\ r_pc = "parallel"
    /\ r_at = human_player_index
    /\ Forward(Append(r_partials, investigate_parallel))

\* a peer's relay_decrypt or investigate_parallel: its main partial
PeerServes ==
    /\ r_pc \in {"relay", "parallel"}
    /\ r_at \in Agents
    /\ Forward(Append(r_partials, PeerPartialDecrypt(r_at, FALSE)))

\* relay_decrypt lines 107-123: the partials that came back are fused
RelayDecryptFuse ==
    /\ r_pc = "back"
    /\ r_kind = "relay_decrypt"
    /\ LET final_result == fusion_decrypt(deserialize_ciphertext(r_ciphertext_b64),
                                          r_partials)
       IN r_result' = GetPackedValue(final_result)
    /\ r_pc' = "returned"
    /\ UNCHANGED <<r_kind, r_requester, r_ciphertext_b64, r_at, r_remaining,
                   r_partials, r_visited>>
    /\ UNCHANGED <<killVars, gameVars, collectVars, dkgVars, shuffleVars,
                   fanoutVars, humanVars, loopVars, chatVars>>

\* the requesting peer adds its own lead partial and fuses
PeerFuses ==
    /\ r_pc = "back"
    /\ r_kind \in {"peer_relay", "peer_parallel"}
    /\ LET all_partials == <<PeerPartialDecrypt(r_requester, TRUE)>> \o r_partials
       IN /\ r_partials' = all_partials
          /\ r_result' = GetPackedValue(fusion_decrypt(
                             deserialize_ciphertext(r_ciphertext_b64), all_partials))
    /\ r_pc' = "returned"
    /\ UNCHANGED <<r_kind, r_requester, r_ciphertext_b64, r_at, r_remaining,
                   r_visited>>
    /\ UNCHANGED <<killVars, gameVars, collectVars, dkgVars, shuffleVars,
                   fanoutVars, humanVars, loopVars, chatVars>>

NextRelay ==
    \/ RelayDecryptCall
    \/ PeerRequest
    \/ ServeRelayDecrypt
    \/ ServeInvestigateParallel
    \/ PeerServes
    \/ RelayDecryptFuse
    \/ PeerFuses

SpecRelay == RelayInit /\ [][NextRelay]_vars

\* every request sent is answered and every handler called runs
SpecRelayFair == SpecRelay /\ WF_vars(NextRelay)

\* ------------------------------------------------------------------------
\* The chat screen: the polling task and the submit handler
\* ------------------------------------------------------------------------

\* GameChatHistory.add_message: the message gets next_id and is inserted by
\* timestamp; the loop's clock never runs backwards, so it goes to the end
add_message(messages, next_id, player_index) ==
    Append(messages, [msg_id |-> next_id, player_index |-> player_index])

\* GameChatHistory.get_messages_from
get_messages_from(messages, from_id) ==
    SelectSeq(messages, LAMBDA m : m.msg_id >= from_id)

\* the messages an agent hands over in one poll: none, one, or two
Fetched == {<<>>} \cup {<<a>> : a \in Agents}
               \cup {<<a, b>> : a \in Agents, b \in Agents}

\* the polling task is suspended in a network wait or in its sleep, so the
\* loop can run the submit handler
PollAwaits == ch_poll_pc \in {"sleep", "sending"}

\* on_mount: an empty history, nothing displayed, the polling task created
ChatInit ==
    /\ KillIdle
    /\ GameIdle
    /\ CollectIdle
    /\ DkgIdle
    /\ ShuffleIdle
    /\ FanoutIdle
    /\ HumanIdle
    /\ LoopIdle
    /\ RelayIdle
    /\ ch_messages = <<>>
    /\ ch_next_id = 0
    /\ last_displayed_msg_id = -1
    /\ ch_shown = [id \in 0..(MaxChat - 1) |-> 0]
    /\ ch_poll_pc = "sleep"
    /\ ch_pending = <<>>
    /\ ch_submit_pc = "idle"

\* _poll_agent_messages up to the end of gather: the agents' pending messages
PollFetch ==
    /\ ch_poll_pc = "sleep"
    /\ \E fetched \in Fetched :
          /\ ch_next_id + Len(fetched) <= MaxChat
          /\ ch_pending' = fetched
    /\ ch_poll_pc' = "adding"
    /\ UNCHANGED <<ch_messages, ch_next_id, last_displayed_msg_id, ch_shown,
                   ch_submit_pc>>
    /\ UNCHANGED <<killVars, gameVars, collectVars, dkgVars, shuffleVars,
                   fanoutVars, humanVars, loopVars, relayVars>>

\* broadcast_chat_message for the next fetched message, up to its gather:
\* the message is in the history and is being sent to the agents
PollBroadcast ==
    /\ ch_poll_pc = "adding"
    /\ ch_pending # <<>>
    /\ ch_next_id < MaxChat
    /\ ch_messages' = add_message(ch_messages, ch_next_id, Head(ch_pending))
    /\ ch_next_id' = ch_next_id + 1
    /\ ch_pending' = Tail(ch_pending)
    /\ ch_poll_pc' = "sending"
    /\ UNCHANGED <<last_displayed_msg_id, ch_shown, ch_submit_pc>>
    /\ UNCHANGED <<killVars, gameVars, collectVars, dkgVars, shuffleVars,
                   fanoutVars, humanVars, loopVars, relayVars>>

\* the gather of broadcast_chat_message is over
PollSent ==
    /\ ch_poll_pc = "sending"
    /\ ch_poll_pc' = "adding"
    /\ UNCHANGED <<ch_messages, ch_next_id, last_displayed_msg_id, ch_shown,
                   ch_pending, ch_submit_pc>>
    /\ UNCHANGED <<killVars, gameVars, collectVars, dkgVars, shuffleVars,
                   fanoutVars, humanVars, loopVars, relayVars>>

\* _check_messages lines 217-229: the messages after last_displayed_msg_id
\* are put on the screen if they are not the human's, and
\* last_displayed_msg_id moves to the last of them
PollDisplay ==
    /\ ch_poll_pc = "adding"
    /\ ch_pending = <<>>
    /\ LET new_messages == get_messages_from(ch_messages,
                                             last_displayed_msg_id + 1)
           shown_now == {new_messages[j].msg_id : j \in
                            {k \in 1..Len(new_messages) :
                                new_messages[k].player_index # human_player_index}}
       IN /\ ch_shown' = [id \in DOMAIN ch_shown |->
                             IF id \in shown_now THEN ch_shown[id] + 1
                             ELSE ch_shown[id]]
          /\ last_displayed_msg_id' =
                 IF new_messages # <<>>
                 THEN new_messages[Len(new_messages)].msg_id
                 ELSE last_displayed_msg_id
    /\ ch_poll_pc' = "sleep"
    /\ UNCHANGED <<ch_messages, ch_next_id, ch_pending, ch_submit_pc>>
    /\ UNCHANGED <<killVars, gameVars, collectVars, dkgVars, shuffleVars,
                   fanoutVars, humanVars, loopVars, relayVars>>

\* on_input_submitted lines 159-178: the human's message is in the history
\* and is being sent to the agents
HumanSubmit ==
    /\ ch_submit_pc = "idle"
    /\ PollAwaits
    /\ ch_next_id + Len(ch_pending) < MaxChat
    /\ ch_messages' = add_message(ch_messages, ch_next_id, human_player_index)
    /\ ch_next_id' = ch_next_id + 1
    /\ ch_submit_pc' = "sending"
    /\ UNCHANGED <<last_displayed_msg_id, ch_shown, ch_poll_pc, ch_pending>>
    /\ UNCHANGED <<killVars, gameVars, collectVars, dkgVars, shuffleVars,
                   fanoutVars, humanVars, loopVars, relayVars>>

\* on_input_submitted lines 180-184: last_displayed_msg_id is set to the
\* msg_id of the last message of the history
HumanSent ==
    /\ ch_submit_pc = "sending"
    /\ PollAwaits
    /\ last_displayed_msg_id' = ch_messages[Len(ch_messages)].msg_id
    /\ ch_submit_pc' = "idle"
    /\ UNCHANGED <<ch_messages, ch_next_id, ch_shown, ch_poll_pc, ch_pending>>
    /\ UNCHANGED <<killVars, gameVars, collectVars, dkgVars, shuffleVars,
                   fanoutVars, humanVars, loopVars, relayVars>>

NextChat ==
    \/ PollFetch
    \/ PollBroadcast
    \/ PollSent
    \/ PollDisplay
    \/ HumanSubmit
    \/ HumanSent

SpecChat == ChatInit /\ [][NextChat]_vars

\* ------------------------------------------------------------------------
\* C1
\* ------------------------------------------------------------------------

\* C1: slot k of the decrypted killed vector is >= 1 exactly when some party's
\* attack vector targets k and no party's heal vector targets k.
C1_KilledIffAttackedNotHealed ==
    k_pc = "done" =>
        \A k \in Slots :
            (k_killed_vector[k] >= 1) <=>
                (k \in k_attack_targets /\ k \notin k_heal_targets)

\* every party attacks player 1 and every party heals player 1: nobody dies
C1_Witness ==
    /\ k_pc = "done"
    /\ k_total_attacks.pt[1] = NumPlayers
    /\ k_total_heals.pt[1] = NumPlayers
    /\ \A k \in Slots : k_killed_vector[k] <= 0

\* ------------------------------------------------------------------------
\* C2
\* ------------------------------------------------------------------------

\* C2: after a night phase that completes, last_killed holds exactly the
\* players that were alive before the phase and whose decrypted killed slot is
\* >= 1, each once; exactly those players turned dead and no other alive flag
\* changed (a dead player with killed >= 1 is not appended).
C2_NightKillsExactlyLiveVictims ==
    (handler = "execute_night_phase" /\ raised = "no") =>
        /\ Range(last_killed) =
               {k \in Slots : alive_before[k] /\ killed_vector[k] >= 1}
        /\ Len(last_killed) = Cardinality(Range(last_killed))
        /\ \A k \in Slots :
               alive[k] = (alive_before[k] /\ k \notin Range(last_killed))

\* a night whose killed vector marks a player that was already dead
C2_Witness ==
    /\ handler = "execute_night_phase"
    /\ raised = "no"
    /\ \E k \in Slots : ~alive_before[k] /\ killed_vector[k] >= 1
    /\ last_killed = <<>>

\* ------------------------------------------------------------------------
\* C3, C4
\* ------------------------------------------------------------------------

MaxVotes == Max({last_vote_counts[i] : i \in Slots})

TopVoted == {i \in Slots : last_vote_counts[i] = MaxVotes}

VoteCompleted == handler = "execute_vote_phase" /\ raised = "no"

\* C3: when the decrypted vote counts have maximum 0, or the maximum is
\* attained at more than one slot, last_voted_out is none and no alive flag
\* changes.
C3_NoEliminationOnTieOrNoVotes ==
    (VoteCompleted /\ (MaxVotes = 0 \/ Cardinality(TopVoted) > 1)) =>
        /\ last_voted_out = None
        /\ alive = alive_before

\* two live players share the top of a vote with at least one vote each
C3_Witness ==
    /\ VoteCompleted
    /\ MaxVotes >= 1
    /\ Cardinality(TopVoted) > 1
    /\ \A k \in TopVoted : alive[k]

\* C4: when the decrypted vote counts have a unique maximum >= 1 at slot k,
\* alive[k] is false afterwards, last_voted_out is k, and no other player's
\* alive flag changes.
C4_UniqueTopIsVotedOut ==
    (VoteCompleted /\ MaxVotes >= 1 /\ Cardinality(TopVoted) = 1) =>
        \A k \in TopVoted :
            /\ ~alive[k]
            /\ last_voted_out = k
            /\ \A j \in Slots \ {k} : alive[j] = alive_before[j]

\* a live player is voted out with a single vote
C4_Witness ==
    /\ VoteCompleted
    /\ MaxVotes = 1
    /\ Cardinality(TopVoted) = 1
    /\ \A k \in TopVoted : alive_before[k] /\ ~alive[k]

\* ------------------------------------------------------------------------
\* C5
\* ------------------------------------------------------------------------

PlayersPartitioned ==
    alive # <<>> =>
        /\ get_survivors \cap get_dead_players = {}
        /\ get_survivors \cup get_dead_players = Slots

NoRevival == \A i \in DOMAIN alive : alive'[i] => alive[i]

\* C5: once the players exist, the survivor list and the dead list are
\* disjoint and together equal {0..N-1} in every state, and no step of the
\* session turns an alive flag from false back to true.
C5_SurvivorsAndDeadPartition == [](PlayersPartitioned) /\ [][NoRevival]_vars

\* the reveal at the end of a game in which somebody died
C5_Witness ==
    /\ handler = "decrypt_all_roles"
    /\ get_dead_players # {}
    /\ get_survivors # {}

\* ------------------------------------------------------------------------
\* C6
\* ------------------------------------------------------------------------

TrueRole(i) == IF i = human_player_index THEN human_role ELSE AgentRole(i)

LiveMafia == {i \in Slots : alive[i] /\ TrueRole(i) = "mafia"}

LiveNonMafia == {i \in Slots : alive[i] /\ TrueRole(i) # "mafia"}

\* C6: check_win_condition returns citizens when no live player is mafia,
\* otherwise mafia when the live non-mafia players are at most as many as the
\* live mafia, otherwise no winner.
C6_WinnerFollowsLiveRoles ==
    handler = "check_win_condition" =>
        winner = (IF LiveMafia = {} THEN "citizens"
                  ELSE IF Cardinality(LiveNonMafia) <= Cardinality(LiveMafia)
                  THEN "mafia"
                  ELSE "None")

\* ------------------------------------------------------------------------
\* C7, C8
\* ------------------------------------------------------------------------

IsCiphertextStr(x) == DOMAIN x = {"b64"}

FullList(list) == DOMAIN list = Slots /\ \A i \in Slots : IsCiphertextStr(list[i])

\* C7: whatever the phase, the human's state, the peers' answers and the
\* cache hold, collect_all_actions returns three lists of length N with a
\* ciphertext at every index.
C7_CollectReturnsFullLists ==
    c_pc \in {"returned", "raised"} =>
        /\ c_pc = "returned"
        /\ FullList(c_lists.vote)
        /\ FullList(c_lists.attack)
        /\ FullList(c_lists.heal)

\* C8: when a peer's request_action fails (and the decryption itself does
\* not), the night or vote phase still runs to completion.
C8_PhaseCompletesDespiteFailedPeer ==
    (handler \in {"execute_night_phase", "execute_vote_phase"}
        /\ req_failed # {} /\ raised # "decrypt") => raised = "no"

\* ------------------------------------------------------------------------
\* C9
\* ------------------------------------------------------------------------

\* C9: every fusion the Coordinator performs (killed vector, vote counts, own
\* role, each role of the final reveal) combines exactly N partial shares, one
\* per party, exactly one of them a lead share.
C9_EveryFusionHasAllSharesOneLead ==
    \A j \in 1..Len(fused) : CompleteShares(fused[j].shares)

FusedKinds == {fused[j].kind : j \in 1..Len(fused)}

\* the final reveal has fused one share list per player's role
C9_Witness ==
    /\ handler = "decrypt_all_roles"
    /\ Len(fused) = NumPlayers
    /\ FusedKinds = {"role"}

\* ------------------------------------------------------------------------
\* C10
\* ------------------------------------------------------------------------

\* the lineage of the aggregated killed vector and of the aggregated votes
KilledLineage == {<<"attack", i>> : i \in Slots} \cup {<<"heal", i>> : i \in Slots}

VoteLineage == {<<"vote", i>> : i \in Slots}

\* C10: in a night phase the only ciphertext sent for partial decryption is
\* the killed vector computed from all attack and all heal vectors, in a vote
\* phase the sum of all vote vectors; no single party's vector and no
\* aggregated attack or heal vector is sent.
C10_OnlyAggregatesAreDecrypted ==
    /\ handler = "execute_night_phase" =>
           \A ct \in submitted : ct.from = KilledLineage
    /\ handler = "execute_vote_phase" =>
           \A ct \in submitted : ct.from = VoteLineage

\* a night with a real attack whose killed vector went to decryption
C10_Witness ==
    /\ handler = "execute_night_phase"
    /\ raised = "no"
    /\ submitted # {}
    /\ \E k \in Slots : killed_vector[k] >= 1


\* ------------------------------------------------------------------------
\* C11
\* ------------------------------------------------------------------------

\* C11: every peer the last handler asked for GET /reveal_role is dead, or
\* the game has ended (a winner is decided); the role of a live peer is never
\* fetched while the game continues.
C11_RevealOnlyDeadOrGameOver ==
    \A i \in reveal_asked : ~alive[i] \/ winner # "None"

\* ------------------------------------------------------------------------
\* C12
\* ------------------------------------------------------------------------

RoleLineage(i) == {<<"role", i>>}

\* the parties whose partial decryption of E_i party p holds
HeldParties(p, i) == {x.party : x \in {y \in d_held[p] : y.of = RoleLineage(i)}}

\* the requests for a partial decryption of E_i sent so far go to parties
\* other than i
PartialsOfRoleAskedFromOthers ==
    \A j \in 1..Len(d_log) :
        d_log[j].path = "partial_decrypt" =>
            \A i \in Agents :
                d_log[j].body.ciphertext = d_encrypted_roles[i] => d_log[j].to # i

\* what is forwarded to agent i: N-1 partials, all of E_i, one per party
\* other than i
ForwardedExactlyTheOthers ==
    \A j \in 1..Len(d_log) :
        d_log[j].path = "complete_role_decryption" =>
            LET partials == d_log[j].body.partial_ciphertexts
                i == d_log[j].to
            IN /\ Len(partials) = NumPlayers - 1
               /\ {partials[n].party : n \in 1..Len(partials)} = Slots \ {i}
               /\ \A n \in 1..Len(partials) : partials[n].of = RoleLineage(i)

RequiredCount(n, role) ==
    LET mafia == IF n >= 9 THEN 3 ELSE IF n >= 6 THEN 2 ELSE 1
    IN CASE role = "mafia" -> mafia
         [] role = "doctor" -> 1
         [] role = "police" -> 1
         [] role = "citizen" -> n - 2 - mafia

CountIn(list, role) == Cardinality({k \in DOMAIN list : list[k] = role})

\* C13: for every number of players from 4 to 10 the role list, while it is
\* shuffled and when it is handed to encryption, has one entry per player
\* and holds each role as many times as the role table says.
C13_RoleListIsPermutationOfTable ==
    s_pc \in {"shuffle", "done"} =>
        /\ DOMAIN s_roles = 0..(s_num_players - 1)
        /\ \A role \in RoleNames :
               CountIn(s_roles, role) = RequiredCount(s_num_players, role)

\* a finished list for ten players that is not in the order it was built
C13_Witness ==
    /\ s_pc = "done"
    /\ s_num_players = MaxPlayers
    /\ s_roles[0] = "citizen"
    /\ s_roles[MaxPlayers - 1] = "mafia"

\* ------------------------------------------------------------------------
\* C14
\* ------------------------------------------------------------------------

RevealCompleted == handler = "decrypt_all_roles" /\ raised = "no"

\* the list the reveal returns: one entry per player, entry i the role that
\* was encrypted as E_i, and so the role multiset of the table
RevealReturnsAssignedRoles ==
    RevealCompleted =>
        /\ DOMAIN all_roles = Slots
        /\ \A i \in Slots : all_roles[i] = roles[i]
        /\ \A role \in RoleNames :
               CountIn(all_roles, role) = RequiredCount(NumPlayers, role)

\* once assigned, the list of role ciphertexts is never changed
BindingFixed == encrypted_roles # <<>> => encrypted_roles' = encrypted_roles

\* C14: the end-of-game reveal returns a list of length N whose entry i is
\* the role encrypted as E_i at role assignment, the list E never changing
\* during the game; its multiset is the role multiset for N.
C14_RevealReturnsRolesInPlayerOrder ==
    [](RevealReturnsAssignedRoles) /\ [][BindingFixed]_vars

\* a reveal after a game in which somebody died and the citizens won
C14_Witness ==
    /\ RevealCompleted
    /\ winner = "citizens"
    /\ \E i \in Slots : ~alive[i]
    /\ all_roles[human_player_index] = human_role

\* ------------------------------------------------------------------------
\* C15
\* ------------------------------------------------------------------------

\* the phase value that goes with the phase handler that ran last
PhaseMatchesHandler ==
    /\ handler = "execute_night_phase" => phase = "night"
    /\ handler = "execute_day_phase" => phase = "day"
    /\ handler = "execute_vote_phase" => phase = "vote"
    /\ pc = "over" => phase = "end"

\* the changes of the phase value the cycle allows (a winner found after a
\* night ends the game from night)
PhaseChanges ==
    {<<"setup", "night">>, <<"night", "day">>, <<"day", "vote">>,
     <<"vote", "night">>, <<"vote", "end">>, <<"night", "end">>}

PhaseStepAllowed == phase' # phase => <<phase, phase'>> \in PhaseChanges

\* C15: the phase value follows setup -> night -> day -> vote -> {night | end}:
\* night while a night phase executes, day during discussion, vote during
\* voting, end after a winner is found, and no other change of value occurs.
C15_PhaseFollowsCycle ==
    [](PhaseMatchesHandler) /\ [][PhaseStepAllowed]_vars

\* ------------------------------------------------------------------------
\* C16
\* ------------------------------------------------------------------------

PhaseHandlers == {"execute_night_phase", "execute_day_phase", "execute_vote_phase"}

ResultScreens == {"night_result", "vote_result"}

\* what runs after a night or a vote phase is the win check (in the TUI the
\* result screen, then the win check), never another phase
WinCheckedBeforeNextPhase ==
    /\ handler \in {"execute_night_phase", "execute_vote_phase"} =>
           handler' \in ResultScreens \cup {"check_win_condition"}
    /\ handler \in ResultScreens => handler' = "check_win_condition"

NoPhaseAfterWinner == winner # "None" => handler' \notin PhaseHandlers

\* C16: after every night phase and every vote phase the win condition is
\* evaluated before any further phase starts, and once it has returned a
\* winner no night, day or vote phase is executed any more.
C16_WinCheckedAfterEveryPhase ==
    [][WinCheckedBeforeNextPhase /\ NoPhaseAfterWinner]_vars

\* a win check after a vote that eliminated somebody returned a winner, and
\* the driver is about to end the game
C16_Witness ==
    /\ handler = "check_win_condition"
    /\ winner # "None"
    /\ last_voted_out # None
    /\ pc \in {"end_game", "reveal"}

\* ------------------------------------------------------------------------
\* C17
\* ------------------------------------------------------------------------

\* C17: when the driver has finished handling a winner returned by the win
\* check (after end_game in the CLI loop, after the game-over screen is shown
\* in the TUI loop), the session is in phase end and the full reveal has
\* produced the ordered list of all N roles shown with the winner.
C17_WinnerEndsSessionWithReveal ==
    pc = "over" =>
        /\ winner # "None"
        /\ phase = "end"
        /\ DOMAIN all_roles = Slots

\* ------------------------------------------------------------------------
\* C18
\* ------------------------------------------------------------------------

\* every join request sent so far carries the key the previous peer returned
\* (the lead's key for the first peer), and that peer had answered
JoinCarriesPreviousResponse ==
    \A j \in 1..Len(d_log) :
        d_log[j].path = "dkg_round" =>
            LET k == d_log[j].to
            IN IF k = 1
               THEN d_log[j].body = initialize_lead_key
               ELSE /\ d_responses[k - 1] # NoKey
                    /\ d_log[j].body = d_responses[k - 1]

\* C18: in round 1 the join request to the next peer is sent only after the
\* previous peer has answered and carries exactly the aggregate key it
\* returned, at most one join request is unanswered at any time, and the
\* joint public key is the answer of the last peer (every party's share
\* added once, in order).
C18_KeyChainIsSequential ==
    /\ Cardinality(d_inflight) <= 1
    /\ JoinCarriesPreviousResponse
    /\ d_joint_public_key # NoKey =>
           /\ d_joint_public_key = d_responses[NumPlayers - 1]
           /\ d_joint_public_key.of = [n \in 1..NumPlayers |-> n - 1]

\* the chain has gone through every peer and the joint key is fixed
C18_Witness ==
    /\ d_pc = "keyswitch"
    /\ d_inflight = {}
    /\ d_joint_public_key # NoKey
    /\ Cardinality({j \in 1..Len(d_log) : d_log[j].path = "dkg_round"}) = NumPlayers - 1

\* ------------------------------------------------------------------------
\* C19
\* ------------------------------------------------------------------------

\* setup, round 1, round 2, round 3, ready (and what follows key generation);
\* a run that aborted is in none of them
DkgRank(at) ==
    CASE at = "aborted" -> -1
      [] at = "broadcast_setup" -> 0
      [] at \in {"chain_send", "chain_wait"} -> 1
      [] at = "keyswitch" -> 2
      [] at = "multmult" -> 3
      [] at = "ready" -> 4
      [] OTHER -> 5

DkgOrder ==
    d_pc' # "aborted" => DkgRank(d_pc') \in {DkgRank(d_pc), DkgRank(d_pc) + 1}

PartiesOf(parties) == {parties[n] : n \in 1..Len(parties)}

Sent(path) == \E j \in 1..Len(d_log) : d_log[j].path = path

DkgBarriers ==
    \* round 2 starts only after the joint public key is fixed
    /\ (DkgRank(d_pc) >= 2 \/ Sent("generate_keyswitchgen")) =>
           PartiesOf(d_joint_public_key.of) = Slots
    \* round-3 requests only after all N-1 key-switch keys are in and combined
    /\ Sent("generate_multmultkey") =>
           /\ Len(d_keys) = NumPlayers - 1
           /\ PartiesOf(d_combined.of) = Slots
           /\ \A j \in 1..Len(d_log) :
                  d_log[j].path = "generate_multmultkey" => d_log[j].body = d_combined
    \* the joint multiplication key is installed only after all N-1 round-3
    \* contributions are in
    /\ d_jmk # NoKey =>
           /\ Len(d_mults) = NumPlayers - 1
           /\ PartiesOf(d_jmk.of) = Slots
           /\ PartiesOf(d_jmk.over) = Slots
    /\ DkgRank(d_pc) >= 4 => d_jmk # NoKey

\* C19: key generation advances setup -> round 1 -> round 2 -> round 3 ->
\* ready in that order only, each round a barrier: round 2 starts only after
\* the joint public key is fixed, round-3 requests are sent only after all
\* N-1 key-switch contributions are received and combined, and the joint
\* multiplication key is installed only after all N-1 round-3 contributions.
C19_DkgRoundsInOrderWithBarriers ==
    [](DkgBarriers) /\ [][DkgOrder]_vars

\* key generation has completed: the multiplication key is installed
C19_Witness ==
    /\ d_pc = "ready"
    /\ d_jmk # NoKey
    /\ Len(d_keys) = NumPlayers - 1
    /\ Len(d_mults) = NumPlayers - 1

\* ------------------------------------------------------------------------
\* C20
\* ------------------------------------------------------------------------

\* the key a request delivers to the peer it is sent to
KeyCarried(request) ==
    CASE request.path \in {"dkg_round", "generate_keyswitchgen",
                           "generate_multmultkey"} -> request.body
      [] request.path = "blind_role_assignment" -> request.body.joint_public_key
      [] OTHER -> NoKey

\* C20: when key generation has reached ready (and from then on), every peer
\* has been sent the final combined joint multiplication key, the one the
\* Coordinator installed in its own context.
C20_FinalKeyBroadcastToEveryPeer ==
    DkgRank(d_pc) >= 4 =>
        \A k \in Agents :
            \E j \in 1..Len(d_log) :
                d_log[j].to = k /\ KeyCarried(d_log[j]) = d_jmk

\* ------------------------------------------------------------------------
\* C21
\* ------------------------------------------------------------------------

\* C21: when the request of any DKG step to a peer has failed (here: the
\* context setup broadcast to one peer), key generation never returns keys:
\* run_dkg_protocol does not reach ready, no joint key is fixed and no roles
\* are assigned.
C21_FailedDkgRequestAbortsDkg ==
    d_setup_failed # {} =>
        /\ DkgRank(d_pc) < 4
        /\ d_encrypted_roles = <<>>

\* ------------------------------------------------------------------------
\* C22
\* ------------------------------------------------------------------------

\* the players whose partial the requester did not get
FailedPeers ==
    {i \in Slots : i # f_requester_index /\ f_answers[i] # "ok"}

\* C22: a fan-out decryption in which some peer failed to return its partial
\* aborts with an error: fusion was not run on fewer than N partials and no
\* plaintext is returned.
C22_FanoutAbortsOnMissingPartial ==
    (f_pc = "returned" /\ FailedPeers # {}) =>
        /\ f_result.raised
        /\ Len(f_result.partials) = NumPlayers

\* ------------------------------------------------------------------------
\* C23
\* ------------------------------------------------------------------------

\* C23: when the threshold decryption of the killed vector or of the vote
\* tally has failed, the phase has no effect (the alive flags are those the
\* phase started from) and the session goes on to the win check and the next
\* phase instead of stopping.
C23_FailedTallyDecryptionIsNoEffect ==
    raised = "decrypt" =>
        /\ alive = alive_before
        /\ pc # "aborted"

\* ------------------------------------------------------------------------
\* C24
\* ------------------------------------------------------------------------

\* a step of role assignment that asked a party for a partial decryption of a
\* role ciphertext and got none
MissingRolePartial ==
    /\ d_pc \in {"own_role", "help"}
    /\ Len(d_log') = Len(d_log) + 1
    /\ d_log'[Len(d_log')].path = "partial_decrypt"
    /\ d_partials' = d_partials

\* C24: when a party fails to supply a partial decryption during role
\* assignment (of the human's role or of an agent's role), assign_roles_blindly
\* fails at that request; nothing is asked again afterwards and the assignment
\* never completes.
C24_MissingRolePartialFailsAssignment ==
    [][/\ MissingRolePartial => d_pc' = "aborted"
       /\ d_pc = "aborted" => (d_pc' = "aborted" /\ d_log' = d_log)]_vars

\* role assignment failed at the request for a partial of an agent's role
C24_Witness ==
    /\ d_pc = "aborted"
    /\ d_human_role # "None"
    /\ Len(d_log) > 0
    /\ d_log[Len(d_log)].path = "partial_decrypt"
    /\ d_log[Len(d_log)].body.ciphertext = d_encrypted_roles[1]

\* ------------------------------------------------------------------------
\* C25
\* ------------------------------------------------------------------------

\* the packed values of a serialized vector
Plain(vector_str) == GetPackedValue(deserialize_ciphertext(vector_str).pt)

OneHot(target) == [k \in Slots |-> IF k = target THEN 1 ELSE 0]

ZeroPlain == [k \in Slots |-> 0]

\* the triplet (vote, attack, heal) the collector holds for the human
HumanTriplet ==
    <<Plain(c_lists.vote[human_player_index]),
      Plain(c_lists.attack[human_player_index]),
      Plain(c_lists.heal[human_player_index])>>

\* the table of the human's own action
TableTriplet(phase_name, role, target, is_alive) ==
    IF ~is_alive \/ target = NoTarget THEN <<ZeroPlain, ZeroPlain, ZeroPlain>>
    ELSE IF phase_name = "vote" THEN <<OneHot(target), ZeroPlain, ZeroPlain>>
    ELSE IF role = "mafia" THEN <<ZeroPlain, OneHot(target), ZeroPlain>>
    ELSE IF role = "doctor" THEN <<ZeroPlain, ZeroPlain, OneHot(target)>>
    ELSE <<ZeroPlain, ZeroPlain, ZeroPlain>>

RECURSIVE SlotSum(_, _)
SlotSum(vector, k) ==
    IF k > NumPlayers - 1 THEN 0 ELSE vector[k] + SlotSum(vector, k + 1)

\* C25: the human's triplet follows the table: at night a mafia's target is
\* one-hot in the attack vector only, a doctor's in the heal vector only, a
\* police or citizen sends three zero vectors; a vote is one-hot in the vote
\* vector only; a dead or abstaining human sends three zero vectors.  Every
\* vector has entries in {0, 1} that sum to at most 1.
C25_HumanTripletFollowsTable ==
    c_pc = "returned" =>
        /\ HumanTriplet = TableTriplet(c_phase, c_role, c_human_target, c_human_alive)
        /\ \A j \in 1..3 :
            /\ \A k \in Slots : HumanTriplet[j][k] \in {0, 1}
            /\ SlotSum(HumanTriplet[j], 0) <= 1

\* a live doctor's heal of player 2 has been collected
C25_Witness ==
    /\ c_pc = "returned"
    /\ c_phase = "night"
    /\ c_role = "doctor"
    /\ c_human_alive
    /\ c_human_target = 2
    /\ HumanTriplet = <<ZeroPlain, ZeroPlain, OneHot(2)>>

\* ------------------------------------------------------------------------
\* C26
\* ------------------------------------------------------------------------

\* a target that is not allowed: an index outside 0..N-1, a dead player, or
\* the human's own index (only a doctor at night may choose itself)
InvalidTarget(target) ==
    /\ target # -1
    /\ \/ target \notin Slots
       \/ ~h_alive[target]
       \/ target = human_player_index /\ ~(h_phase = "night" /\ h_role = "doctor")

\* C26: when a target submitted for the human's action was invalid, the
\* triplet get_human_action returns for the phase is three zero vectors.
C26_InvalidTargetGivesZeroTriplet ==
    (h_pc = "returned" /\ \E target \in h_submitted : InvalidTarget(target)) =>
        \A j \in 1..3 : Plain(h_vectors[j]) = ZeroPlain

\* ------------------------------------------------------------------------
\* C27
\* ------------------------------------------------------------------------

\* C27: in a night phase with a live human police, a ciphertext has been sent
\* out for the fan-out decryption of an investigation exactly when the police
\* chose a target.
C27_InvestigationIffPoliceChoseTarget ==
    (c_pc = "returned" /\ c_phase = "night" /\ c_role = "police"
        /\ c_human_alive) =>
        (c_investigated # {} <=> c_human_target \in Slots)

\* ------------------------------------------------------------------------
\* C28
\* ------------------------------------------------------------------------

\* the peers whose triplet the cache passed to the collector holds
CachedPeers == {i \in Agents : IsCached(c_cached_results, i) /\ c_kinds[i] = "cached"}

\* C28: for every peer whose triplet is in the cache passed to the collector,
\* the call returns with exactly that triplet at the peer's index, whatever
\* else the cache holds and whatever the other peers answer.
C28_CachedTripletsPlacedUnchanged ==
    c_pc \in {"returned", "raised"} =>
        \A i \in CachedPeers :
            /\ c_pc = "returned"
            /\ c_lists.vote[i] = c_cached_results[i].vote_vector
            /\ c_lists.attack[i] = c_cached_results[i].attack_vector
            /\ c_lists.heal[i] = c_cached_results[i].heal_vector

\* ------------------------------------------------------------------------
\* C29
\* ------------------------------------------------------------------------

RECURSIVE VotesFor(_, _)
VotesFor(k, i) ==
    IF i > NumPlayers - 1 THEN 0
    ELSE Plain(c_lists.vote[i])[k] + VotesFor(k, i + 1)

\* C29: the decrypted vote counts are the slot-wise sum of the N players' vote
\* vectors, each counted exactly once, whether the vector was freshly
\* requested, taken from the cache or substituted by zeros.
C29_VoteCountsAreSumOfVoteVectors ==
    c_pc = "tallied" =>
        \A k \in Slots : c_vote_counts[k] = VotesFor(k, 0)

\* a tally over a fresh, a cached and a zero-substituted vector in which the
\* human and two peers voted for player 1
C29_Witness ==
    /\ c_pc = "tallied"
    /\ c_kinds = <<"cached", "fresh", "timeout">>
    /\ c_human_alive
    /\ c_human_target = 1
    /\ c_vote_counts[1] = 3

\* ------------------------------------------------------------------------
\* C30
\* ------------------------------------------------------------------------

\* C30: for the player count of the session being set up (any N from
\* min_players to max_players), the batch slot count of the crypto context
\* created for N parties is at least N.
C30_BatchSlotsCoverEveryPlayerCount ==
    s_num_players \in MinPlayers..MaxPlayers =>
        create_openfhe_context(s_num_players).batch_size >= s_num_players

\* ------------------------------------------------------------------------
\* C31
\* ------------------------------------------------------------------------

\* C31: a role vector that decrypts to no slot equal to 1 gives "unknown",
\* and "unknown" is not accepted as the human's role: role assignment never
\* completes with it.
C31_UnknownRoleIsNotAccepted ==
    d_pc = "assigned" => d_human_role # "unknown"

\* ------------------------------------------------------------------------
\* C32
\* ------------------------------------------------------------------------

\* the ordering of the role encoding: citizen, mafia, doctor, police
RolePosition(role) ==
    CASE role = "citizen" -> 0
      [] role = "mafia" -> 1
      [] role = "doctor" -> 2
      [] role = "police" -> 3

\* the role slots of the plaintext generate_encrypted_roles encrypted for
\* player i
EncodedRole(i) ==
    [k \in RoleSlots |-> deserialize_ciphertext(d_encrypted_roles[i]).pt[k]]

\* C32: the vector encrypted for every player's role r is role_to_one_hot(r),
\* a 4-vector with exactly one 1, at the position of r in the ordering
\* citizen, mafia, doctor, police, and one_hot_to_role maps it back to r.
C32_RoleOneHotRoundTrip ==
    d_encrypted_roles # <<>> =>
        \A i \in Slots :
            LET r == d_roles[i]
                v == role_to_one_hot(r)
            IN /\ EncodedRole(i) = v
               /\ DOMAIN v = 0..3
               /\ \A k \in DOMAIN v : v[k] \in {0, 1}
               /\ {k \in DOMAIN v : v[k] = 1} = {RolePosition(r)}
               /\ one_hot_to_role(v) = r

\* the roles are assigned and the human has decoded its own role from the
\* decrypted one-hot vector
C32_Witness ==
    /\ d_pc = "assigned"
    /\ {d_roles[i] : i \in Slots} = RoleNames
    /\ d_human_role = d_roles[human_player_index]
    /\ d_human_role = "doctor"

\* ------------------------------------------------------------------------
\* C33
\* ------------------------------------------------------------------------

\* C33: when the caller has begun obtaining the human's action, the request
\* of every peer without a cached result had already been handed to the
\* network
C33_RequestsStartedBeforeHumanAction ==
    (e_pc \in {"await_ai_task", "returned"} /\ e_human_alive)
        => e_begun_at_human = Uncached

\* ------------------------------------------------------------------------
\* C34
\* ------------------------------------------------------------------------

\* the positions of the lead shares in the partials the requester holds
LeadPositions == {j \in 1..Len(r_partials) : r_partials[j].lead}

\* C34: in a relay or fan-out started by a peer, the partial the Coordinator's
\* server contributes is a main share, and the requester's fusion runs on
\* exactly one lead share.
C34_CoordinatorServesMainShare ==
    r_kind \in {"peer_relay", "peer_parallel"} =>
        /\ \A j \in 1..Len(r_partials) :
               r_partials[j].party = human_player_index => ~r_partials[j].lead
        /\ r_pc = "returned" => Cardinality(LeadPositions) = 1

\* ------------------------------------------------------------------------
\* C35
\* ------------------------------------------------------------------------

\* the parties of the partials the requester holds
PartialParties == {r_partials[j].party : j \in 1..Len(r_partials)}

\* while the request travels, every party visited has appended one partial
\* and neither it nor the party holding the request is in remaining_order
OneHopOnePartial ==
    r_pc \in {"relay", "back", "returned"} =>
        /\ Len(r_partials) = Len(r_visited)
        /\ \A j \in 1..Len(r_remaining) :
               /\ r_remaining[j] # r_at
               /\ \A v \in 1..Len(r_visited) : r_visited[v] # r_remaining[j]

\* the relay is over: every other party was visited once in player_order and
\* the requester last, N partials came back, one per party, the requester's
\* the only lead, and the vector returned is the plaintext
RelayCompleted ==
    /\ r_pc = "returned"
    /\ r_visited = player_order(r_requester) \o <<r_requester>>
    /\ Len(r_partials) = NumPlayers
    /\ PartialParties = Slots
    /\ \A j \in 1..Len(r_partials) :
           r_partials[j].lead <=> r_partials[j].party = r_requester
    /\ r_result = GetPackedValue(deserialize_ciphertext(r_ciphertext_b64).pt)

C36_VotedOutWasAlive ==
    (handler = "execute_vote_phase" /\ raised = "no" /\ last_voted_out # None) =>
        alive_before[last_voted_out]

\* ------------------------------------------------------------------------
\* C37
\* ------------------------------------------------------------------------

\* C37: a win check counts each live player exactly once, whatever the live
\* peers answer to reveal_role, and does not return citizens with a live
\* peer left uncounted.
C37_WinCheckCountsEveryLivePlayer ==
    handler = "check_win_condition" =>
        alive_mafia + alive_citizens = Cardinality({i \in Slots : alive[i]})

\* ------------------------------------------------------------------------
\* C38
\* ------------------------------------------------------------------------

\* C38: the day phase sends no ciphertext for decryption, fuses nothing and
\* asks for no role, and of the session state changes only phase: the day
\* number, the alive flags, last_killed, last_voted_out and last_vote_counts
\* stay as they were.
C38_DayPhaseChangesOnlyPhase ==
    [][(pc = "day" /\ handler' = "execute_day_phase") =>
          /\ phase' = "day"
          /\ UNCHANGED <<day_number, alive, last_killed, last_voted_out,
                         last_vote_counts, human_role, encrypted_roles, winner>>
          /\ submitted' = {}
          /\ fused' = <<>>
          /\ reveal_asked' = {}]_vars

C38_Witness ==
    /\ handler = "execute_day_phase"
    /\ phase = "day"
    /\ last_killed # <<>>
    /\ \E i \in Slots : ~alive[i]

\* ------------------------------------------------------------------------
\* C39
\* ------------------------------------------------------------------------

\* the msg_ids of the agents' messages in the chat history
AgentMessageIds ==
    {ch_messages[j].msg_id : j \in
        {k \in 1..Len(ch_messages) :
            ch_messages[k].player_index # human_player_index}}

\* C39: no agent's message is put on the chat screen twice, and once the
\* polling task has finished a round every agent's message in the chat
\* history has been put on the screen once, however the human's submissions
\* interleave with the polling.
C39_AgentMessagesDisplayedOnce ==
    /\ \A id \in DOMAIN ch_shown : ch_shown[id] <= 1
    /\ ch_poll_pc = "sleep" => \A id \in AgentMessageIds : ch_shown[id] = 1

====
